---- MODULE Spec2Model ----
(***************************************************************************)
(* State-machine model of the Smart Logistics tick loop (src/main.py) and  *)
(* of the components it drives: RobotManager, DeadlockResolver, PathFinder *)
(* and the rules kept in SimulationController.                             *)
(*                                                                         *)
(* A cell is a pair <<r, c>>.  Robots are indexed by their id in the order *)
(* of sim.robots (ids 1..NumRobots, the default "index + 1").  Packages    *)
(* are indexed 0..NumPackages-1 as in SimulationController._init_packages. *)
(* Python's None is NoCell for a cell, NoPkg for a package id and NoRobot  *)
(* for a robot id.                                                         *)
(*                                                                         *)
(* PathFinder.smart_astar picks its route by a floating point cost that    *)
(* includes the output of an external classifier; the model keeps the hard *)
(* constraints of the search and lets the route be any admissible one.     *)
(* On a floor with a single robot those terms vanish and the search is     *)
(* computed step by step with its costs in units of 10^-7.                 *)
(* random.shuffle in get_emergency_move is a choice over the candidates.   *)
(*                                                                         *)
(* The floor's size, the step limit and the robots and packages come from  *)
(* the pattern file and are part of the state.  Spec runs main() over the  *)
(* small patterns of Init, YieldSpec and ScenarioSpec run it on one        *)
(* pattern each, ResSpec drives the reservation table and the time-space   *)
(* search directly, ResolverSpec adds a direct call of the resolver.       *)
(***************************************************************************)
EXTENDS Integers, Sequences, FiniteSets, TLC

VARIABLES
    robots,             \* sim.robots: id -> robot record
    packages,           \* sim.packages: pid -> package record
    obstacles,          \* sim.obstacles (immutable after load)
    rows,               \* settings.ROWS as loaded from the pattern file
    cols,               \* settings.COLS as loaded from the pattern file
    max_steps,          \* settings.MAX_STEPS as loaded from the pattern file
    step,               \* the tick counter of main()
    pc,                 \* position of main() inside the tick
    sorted_robots,      \* main: sorted_robots (ids, by priority) of this tick
    reserved_positions, \* main: reserved_positions of this tick
    planned_moves,      \* main: planned_moves of this tick
    tick_start_pos,     \* history: every robot's pos when the tick began
    tick_start_status,  \* history: every package's status when the tick began
    outcome,            \* "running", "win" or "timeout"
    reservations,       \* ReservationTable.reservations: bookings <<tick, cell, robot id>>
    robot_reservations, \* ReservationTable.robot_reservations: id -> list of <<cell, tick>>
    current_step,       \* the path finder's clock
    found_path,         \* the path the last path search returned
    res_op,             \* history: the last operation on the reservation table
    res_before,         \* history: reservations before that operation
    idx_before          \* history: robot_reservations before that operation

mainvars == <<robots, packages, obstacles, rows, cols, max_steps, step, pc,
              sorted_robots,
              reserved_positions, planned_moves, tick_start_pos,
              tick_start_status, outcome>>

resvars == <<reservations, robot_reservations, current_step, found_path,
             res_op, res_before, idx_before>>

vars == <<mainvars, resvars>>

\* ---------------------------------------------------------------- settings
ROWS == 2
COLS == 3
MAX_STEPS == 16
NumRobots == 2
NumPackages == 2

YIELD_THRESHOLD == 3
DECISION_WAIT_THRESHOLD == 5
FORCE_MOVE_THRESHOLD == 10
DEADLOCK_THRESHOLD == 15
REASSIGN_THRESHOLD == 30
IDLE_RECHECK_INTERVAL == 1
ORPHAN_CHECK_INTERVAL == 1

NoCell == <<-1, -1>>
NoPkg == -1
NoRobot == 0

\* the ids of the loaded robots and packages
RobotIds == DOMAIN robots
PackageIds == DOMAIN packages
Cells == {<<r, c>> : r \in 0..(rows - 1), c \in 0..(cols - 1)}

\* ---------------------------------------------------------------- GridUtils
Abs(x) == IF x < 0 THEN -x ELSE x
Min2(a, b) == IF a < b THEN a ELSE b
Max2(a, b) == IF a > b THEN a ELSE b

in_bounds(r, c) == 0 <= r /\ r < rows /\ 0 <= c /\ c < cols

manhattan(a, b) == Abs(a[1] - b[1]) + Abs(a[2] - b[2])

get_direction(from_pos, to_pos) ==
    <<to_pos[1] - from_pos[1], to_pos[2] - from_pos[2]>>

is_turn(old_dir, new_dir) ==
    IF old_dir = <<0, 0>> THEN FALSE ELSE old_dir # new_dir

Dirs4 == << <<-1, 0>>, <<1, 0>>, <<0, -1>>, <<0, 1>> >>
Dirs8 == << <<-1, 0>>, <<1, 0>>, <<0, -1>>, <<0, 1>>,
            <<-1, -1>>, <<-1, 1>>, <<1, -1>>, <<1, 1>> >>

Shift(pos, d) == <<pos[1] + d[1], pos[2] + d[2]>>

\* is_safe_cell with both tests lost: every cell counts as safe
is_safe_cell_unchecked(pos) == TRUE

\* SimulationController.is_safe_cell / DeadlockResolver.is_safe_cell
is_safe_cell(pos) == in_bounds(pos[1], pos[2]) /\ pos \notin obstacles

\* SimulationController._compute_corridor_map, read as corridor_map.get(pos, 0)
corridor_map(pos) ==
    IF ~in_bounds(pos[1], pos[2]) \/ pos \in obstacles THEN 0
    ELSE Cardinality({i \in 1..8 : is_safe_cell(Shift(pos, Dirs8[i]))})

\* the occupancy test with the comparison of positions lost
OccupiedByOther_blind(w, id, pos) == FALSE

\* some other robot stands on pos
OccupiedByOther(w, id, pos) == \E o \in RobotIds : o # id /\ w.rb[o].pos = pos

\* the first robot of sim.robots other than id that stands on pos (0: none)
FirstOtherAt(w, id, pos) ==
    IF OccupiedByOther(w, id, pos)
    THEN CHOOSE o \in RobotIds :
            /\ o # id /\ w.rb[o].pos = pos
            /\ \A o2 \in RobotIds : (o2 # id /\ w.rb[o2].pos = pos) => o <= o2
    ELSE NoRobot

\* ---------------------------------------------------------------- PathFinder
\* can_enter_dropoff: decided by the first package (in dict order) whose
\* dropoff is pos
DropoffPkgsAt(w, pos) == {p \in PackageIds : w.pk[p].dropoff = pos}

can_enter_dropoff(w, robot, pos) ==
    IF DropoffPkgsAt(w, pos) = {} THEN TRUE
    ELSE LET pid == CHOOSE p \in DropoffPkgsAt(w, pos) :
                        \A q \in DropoffPkgsAt(w, pos) : p <= q
             pkg == w.pk[pid]
         IN  \/ (robot.package = pid /\ robot.state = "TO_DROPOFF")
             \/ pkg.status = "DELIVERED"
             \/ pkg.status = "WAITING"

can_enter_pickup_open(w, robot, pos) == TRUE

can_enter_pickup(w, robot, pos) ==
    \/ /\ robot.package # NoPkg
       /\ w.pk[robot.package].pickup = pos
       /\ robot.state = "TO_PICKUP"
    \/ ~\E p \in PackageIds : w.pk[p].pickup = pos /\ w.pk[p].status = "WAITING"

get_robot_priority(robot) ==
    LET base == CASE robot.state = "TO_DROPOFF" -> 3000
                  [] robot.state = "TO_PICKUP" -> 2000
                  [] robot.state = "EVACUATING" -> 1500
                  [] robot.state = "HOME" -> 1000
                  [] OTHER -> 0
        dist_bonus == IF robot.path # <<>>
                      THEN 500 - Min2(Len(robot.path), 500) ELSE 0
    IN  base + robot.wait_count * 100 + dist_bonus + robot.momentum * 50

\* the cells smart_astar may step on: in bounds, not blocked, and (unless it
\* is the goal) enterable as a dropoff and as a pickup
AStarPassable(w, robot, goal, blocked, nxt) ==
    /\ in_bounds(nxt[1], nxt[2])
    /\ nxt \notin blocked
    /\ (nxt # goal => can_enter_dropoff(w, robot, nxt))
    /\ (nxt # goal => can_enter_pickup(w, robot, nxt))

\* all cell sequences that leave start by 4-connected passable steps without
\* visiting a cell twice, grown from the sequences in `frontier`
RECURSIVE SimpleWalks(_, _, _, _, _, _, _)
SimpleWalks(w, robot, start, goal, blocked, frontier, found) ==
    IF frontier = {} THEN found
    ELSE LET ext == {Append(p, Shift(IF p = <<>> THEN start ELSE p[Len(p)],
                                     Dirs4[i])) :
                        p \in {q \in frontier : q = <<>> \/ q[Len(q)] # goal},
                        i \in 1..4}
             ok == {p \in ext :
                      /\ AStarPassable(w, robot, goal, blocked, p[Len(p)])
                      /\ p[Len(p)] # start
                      /\ \A k \in 1..(Len(p) - 1) : p[k] # p[Len(p)]}
         IN  SimpleWalks(w, robot, start, goal, blocked, ok, found \cup ok)

\* PathFinder.is_narrow_passage / RobotManager.is_narrow_passage
is_narrow_passage(pos) ==
    Cardinality({i \in 1..4 : is_safe_cell(Shift(pos, Dirs4[i]))}) <= 2

\* settings.TURN_PENALTY (1.5) in hundredths, settings.CORRIDOR_BONUS (0.8)
\* in tenths
TURN_PENALTY == 150
CORRIDOR_BONUS == 8

\* The search computed step by step, for a floor with one robot whose
\* wait_count is below 5: the AI risk term and the traffic term are then
\* zero and every cost is a decimal with at most seven places, kept here
\* as an integer count of 10^-7.
ExactSearch(w, robot) == Len(w.rb) = 1 /\ robot.wait_count < 5

\* move_cost of the step into nxt heading new_dir after heading last_dir
\* (smart_astar 167-224); the sole robot has id 1
move_cost(w, robot, goal, last_dir, nxt, new_dir) ==
    LET turning == is_turn(last_dir, new_dir)
        sum == 100 + (1 % 3) * 15
               + (IF turning /\ last_dir # <<0, 0>> THEN TURN_PENALTY ELSE 0)
        corridor == IF corridor_map(nxt) >= 6 THEN CORRIDOR_BONUS
                    ELSE IF corridor_map(nxt) <= 2 THEN 13 ELSE 10
        momentum == IF ~turning /\ robot.momentum > 0
                    THEN Max2(65, 100 - robot.momentum * 6) ELSE 100
        proximity == IF manhattan(nxt, goal) <= 3 THEN 9 ELSE 10
        narrow == IF is_narrow_passage(nxt) /\ get_robot_priority(robot) < 2000
                  THEN 15 ELSE 10
    IN  sum * corridor * momentum * proximity * narrow

\* the heuristic h of a state entered at nxt heading new_dir (230-243)
heuristic(robot, goal, last_dir, nxt, new_dir) ==
    LET sign(a, b) == IF a > b THEN 1 ELSE IF a < b THEN -1 ELSE 0
        goal_dir == <<sign(goal[1], nxt[1]), sign(goal[2], nxt[2])>>
        aligned == IF new_dir[1] = goal_dir[1] \/ new_dir[2] = goal_dir[2]
                   THEN 92 ELSE 100
        steady == IF robot.momentum >= 3 /\ new_dir = last_dir
                  THEN 95 ELSE 100
    IN  manhattan(nxt, goal) * aligned * steady * 1000

\* the order of the heap's entries (f, g, current, last_dir, path); no two
\* entries agree on (g, current, last_dir), so the path is never compared
HeapLess(x, y) ==
    LET a == <<x.f, x.g, x.cell[1], x.cell[2], x.dir[1], x.dir[2]>>
        b == <<y.f, y.g, y.cell[1], y.cell[2], y.dir[1], y.dir[2]>>
    IN  \E k \in 1..6 : a[k] < b[k] /\ \A j \in 1..(k - 1) : a[j] = b[j]

\* one turn of the while loop of smart_astar (135-247) on the search state
\* st: open_set, came_from, g_score, and the path once it has returned
astar_step(w, robot, goal, blocked, st) ==
    IF st.open_set = {} THEN [st EXCEPT !.returned = TRUE, !.path = <<>>]
    ELSE
      LET x == CHOOSE e \in st.open_set :
                  \A o \in st.open_set \ {e} : HeapLess(e, o)
          rest == st.open_set \ {x}
      IN  IF x.cell = goal
          THEN [st EXCEPT !.returned = TRUE, !.path = Append(x.path, x.cell)]
          ELSE IF <<x.cell, x.dir>> \in st.came_from
          THEN [st EXCEPT !.open_set = rest]
          ELSE
            LET moves == {[cell |-> Shift(x.cell, Dirs4[i]), dir |-> Dirs4[i]] :
                            i \in {j \in 1..4 :
                                AStarPassable(w, robot, goal, blocked,
                                              Shift(x.cell, Dirs4[j]))}}
                new_g(m) == x.g + move_cost(w, robot, goal, x.dir, m.cell, m.dir)
                better == {m \in moves :
                             \/ <<m.cell, m.dir>> \notin DOMAIN st.g_score
                             \/ new_g(m) < st.g_score[<<m.cell, m.dir>>]}
                pushed == {[f |-> new_g(m)
                                  + heuristic(robot, goal, x.dir, m.cell, m.dir),
                            g |-> new_g(m), cell |-> m.cell, dir |-> m.dir,
                            path |-> Append(x.path, m.cell)] : m \in better}
                scores == [s \in DOMAIN st.g_score
                                  \cup {<<m.cell, m.dir>> : m \in better} |->
                             IF \E m \in better : <<m.cell, m.dir>> = s
                             THEN new_g([cell |-> s[1], dir |-> s[2]])
                             ELSE st.g_score[s]]
            IN  [st EXCEPT !.open_set = rest \cup pushed,
                           !.came_from = @ \cup {<<x.cell, x.dir>>},
                           !.g_score = scores]

\* the loop run until it returns: 2^k turns at most, by halving.  Every
\* turn either returns, or drops an entry of open_set, or closes a state
\* and pushes at most four entries, so the loop takes fewer than
\* 2^AStarDepth turns on the floors considered.
AStarDepth == 14

RECURSIVE astar_loop(_, _, _, _, _, _)
astar_loop(w, robot, goal, blocked, st, k) ==
    IF st.returned THEN st
    ELSE IF k = 0 THEN astar_step(w, robot, goal, blocked, st)
    ELSE astar_loop(w, robot, goal, blocked,
                    astar_loop(w, robot, goal, blocked, st, k - 1), k - 1)

\* smart_astar: [] when start = goal or when the goal cannot be reached; else
\* a route to the goal, returned as `path + [current]`, i.e. with the goal
\* cell listed twice at its end.  With one robot on the floor the route is
\* the one the search computes; with several robots it is any simple
\* admissible route, the traffic cost being left open.
smart_astar(w, start, goal, blocked, robot) ==
    IF start = goal THEN {<<>>}
    ELSE IF ExactSearch(w, robot)
    THEN {astar_loop(w, robot, goal, blocked,
                     [open_set |-> {[f |-> 0, g |-> 0, cell |-> start,
                                     dir |-> robot.last_dir, path |-> <<>>]},
                      came_from |-> {},
                      g_score |-> (<<start, robot.last_dir>> :> 0),
                      returned |-> FALSE, path |-> <<>>],
                     AStarDepth).path}
    ELSE LET routes == {p \in SimpleWalks(w, robot, start, goal, blocked,
                                          {<<>>}, {}) : p[Len(p)] = goal}
         IN  IF routes = {} THEN {<<>>}
             ELSE {Append(p, goal) : p \in routes}

\* smooth_path is the identity
smooth_path(path, robot) == path

\* ---------------------------------------------------------------- worlds
\* A world is the mutable data the components share: w.rb (the robots) and
\* w.pk (the packages).  An operation that plans a route
\* yields the set of worlds it can end in, one per admissible route.
\* During planning and execution a world also carries main()'s locals
\* w.planned (planned_moves) and w.reserved (reserved_positions).
SetRobot(w, id, r) == [w EXCEPT !.rb[id] = r]

\* the worlds reached from w by giving robot id the record r with its path
\* set to a route of Routes (one world per route the search may return)
WithRoutes(w, id, r, Routes) == {SetRobot(w, id, [r EXCEPT !.path = p]) : p \in Routes}

\* ---------------------------------------------------------------- RobotManager
\* get_traffic_density, scaled by 30 (10, 5/dist and 2/dist become integers)
get_traffic_density30(w, pos, robot_id) ==
    LET dens(o) ==
            LET dist == manhattan(pos, w.rb[o].pos)
            IN  CASE dist = 0 -> 300
                  [] dist = 1 -> 150
                  [] dist = 2 -> 75
                  [] dist = 3 -> 20
                  [] dist = 4 -> 15
                  [] OTHER -> 0
        Sum[S \in SUBSET RobotIds] ==
            IF S = {} THEN 0
            ELSE LET o == CHOOSE x \in S : TRUE IN dens(o) + Sum[S \ {o}]
    IN  Sum[RobotIds \ {robot_id}]

get_blocked_for_robot(w, id, robot, reserved) ==
    LET base == ((obstacles \cup {w.rb[o].pos : o \in RobotIds \ {id}})
                    \cup reserved) \ {robot.pos}
        my_dropoff == IF robot.package # NoPkg /\ robot.state = "TO_DROPOFF"
                      THEN w.pk[robot.package].dropoff ELSE NoCell
    IN  base \cup {w.pk[p].dropoff : p \in {q \in PackageIds :
                        w.pk[q].status = "PICKED" /\ w.pk[q].dropoff # my_dropoff}}

\* main: blocked_minimal of the planning fallback
blocked_minimal(w, id) == obstacles \cup {w.rb[o].pos : o \in RobotIds \ {id}}

\* request_package: total_cost scaled by 20; returns the chosen pid or NoPkg
request_cost20(w, id, pid) ==
    LET robot == w.rb[id]
        pkg == w.pk[pid]
        pickup_dist == manhattan(robot.pos, pkg.pickup)
        dropoff_dist == manhattan(pkg.pickup, pkg.dropoff)
        competing == Cardinality({o \in RobotIds :
                        /\ o # id
                        /\ w.rb[o].package # NoPkg
                        /\ manhattan(w.rb[o].pos, pkg.pickup) < pickup_dist})
    IN  20 * pickup_dist + 4 * dropoff_dist
          + get_traffic_density30(w, pkg.pickup, id)
          + (IF is_narrow_passage(pkg.pickup) THEN 40 ELSE 0)
          + 60 * competing

request_package_pid(w, id) ==
    LET cand == {p \in PackageIds :
                    w.pk[p].status = "WAITING" /\ w.pk[p].assigned_to = NoRobot}
    IN  IF cand = {} THEN NoPkg
        ELSE CHOOSE p \in cand : \A q \in cand :
                \/ request_cost20(w, id, p) < request_cost20(w, id, q)
                \/ (request_cost20(w, id, p) = request_cost20(w, id, q) /\ p <= q)

\* detect_oscillation: the history after the append, and the verdict
history_after(robot) ==
    LET h == Append(robot.position_history, robot.pos)
    IN  IF Len(h) > 10 THEN Tail(h) ELSE h

oscillating(h) ==
    /\ Len(h) >= 5
    /\ Cardinality({h[k] : k \in (Len(h) - 4)..Len(h)}) <= 3

cleanup_orphaned_assignments(w) ==
    [w EXCEPT !.pk = [pid \in PackageIds |->
        LET pkg == w.pk[pid]
        IN  IF pkg.status # "WAITING" \/ pkg.assigned_to = NoRobot THEN pkg
            ELSE LET assigned_robot == w.rb[pkg.assigned_to]
                     working == /\ assigned_robot.package = pid
                                /\ assigned_robot.state \in {"TO_PICKUP", "TO_DROPOFF"}
                 IN  IF working THEN pkg ELSE [pkg EXCEPT !.assigned_to = NoRobot]]]

\* reassign_stuck_packages, one package: the closest IDLE/HOME robot that is
\* strictly closer than the stuck owner (first in list order on ties)
reassign_best_robot(w, pid) ==
    LET pkg == w.pk[pid]
        owner == pkg.assigned_to
        elig == {o \in RobotIds :
                    /\ o # owner
                    /\ w.rb[o].state \in {"IDLE", "HOME"}
                    /\ w.rb[o].wait_count <= YIELD_THRESHOLD
                    /\ manhattan(w.rb[o].pos, pkg.pickup)
                         < manhattan(w.rb[owner].pos, pkg.pickup)}
    IN  IF elig = {} THEN NoRobot
        ELSE CHOOSE o \in elig : \A o2 \in elig :
                \/ manhattan(w.rb[o].pos, pkg.pickup) < manhattan(w.rb[o2].pos, pkg.pickup)
                \/ /\ manhattan(w.rb[o].pos, pkg.pickup) = manhattan(w.rb[o2].pos, pkg.pickup)
                   /\ o <= o2

reassign_one(w, pid) ==
    LET pkg == w.pk[pid]
    IN  IF pkg.status # "WAITING" \/ pkg.assigned_to = NoRobot THEN {w}
        ELSE IF w.rb[pkg.assigned_to].wait_count <= REASSIGN_THRESHOLD THEN {w}
        ELSE LET best == reassign_best_robot(w, pid)
             IN  IF best = NoRobot THEN {w}
                 ELSE LET w1 == [w EXCEPT
                                    !.rb[pkg.assigned_to].package = NoPkg,
                                    !.rb[pkg.assigned_to].state = "IDLE",
                                    !.rb[pkg.assigned_to].path = <<>>,
                                    !.rb[pkg.assigned_to].failed_paths = {},
                                    !.pk[pid].assigned_to = best,
                                    !.rb[best].package = pid]
                          blocked == get_blocked_for_robot(w1, best, w1.rb[best], {})
                          routes == smart_astar(w1, w1.rb[best].pos, pkg.pickup,
                                                blocked, w1.rb[best])
                      IN  WithRoutes(w1, best,
                                     [w1.rb[best] EXCEPT !.state = "TO_PICKUP",
                                                         !.decision_mode = "NORMAL",
                                                         !.failed_paths = {},
                                                         !.wait_count = 0],
                                     routes)

RECURSIVE reassign_from(_, _)
reassign_from(S, pid) ==
    IF pid >= Cardinality(PackageIds) THEN S
    ELSE reassign_from(UNION {reassign_one(w, pid) : w \in S}, pid + 1)

reassign_stuck_packages(w) == reassign_from({w}, 0)

\* force_idle_robots_to_work, one robot: the closest WAITING unassigned
\* package (first pid on ties)
force_idle_one(w, id) ==
    LET rb == w.rb[id]
    IN  IF rb.state # "IDLE" \/ rb.package # NoPkg THEN {w}
        ELSE LET cand == {p \in PackageIds :
                            w.pk[p].status = "WAITING" /\ w.pk[p].assigned_to = NoRobot}
                 cleared == [rb EXCEPT !.failed_paths = {}]
             IN  IF cand = {} THEN {SetRobot(w, id, cleared)}
                 ELSE LET best_pid == CHOOSE p \in cand : \A q \in cand :
                                \/ manhattan(rb.pos, w.pk[p].pickup)
                                     < manhattan(rb.pos, w.pk[q].pickup)
                                \/ /\ manhattan(rb.pos, w.pk[p].pickup)
                                        = manhattan(rb.pos, w.pk[q].pickup)
                                   /\ p <= q
                          held == [cleared EXCEPT !.package = best_pid]
                          w1 == [w EXCEPT !.pk[best_pid].assigned_to = id,
                                          !.rb[id] = held]
                          blocked == get_blocked_for_robot(w1, id, held, {})
                          routes == smart_astar(w1, held.pos, w1.pk[best_pid].pickup,
                                                blocked, held)
                      IN  WithRoutes(w1, id,
                                     [held EXCEPT !.state = "TO_PICKUP",
                                                  !.decision_mode = "NORMAL",
                                                  !.failed_paths = {},
                                                  !.wait_count = 0],
                                     routes)

RECURSIVE force_idle_from(_, _)
force_idle_from(S, id) ==
    IF id > Len(robots) THEN S
    ELSE force_idle_from(UNION {force_idle_one(w, id) : w \in S}, id + 1)

force_idle_robots_to_work(w) == force_idle_from({w}, 1)

fix_one(w, id) ==
    LET rb == w.rb[id]
    IN  IF rb.package = NoPkg THEN {w}
        ELSE LET pkg == w.pk[rb.package]
             IN  IF pkg.status = "PICKED" /\ rb.state = "IDLE"
                 THEN LET r1 == [rb EXCEPT !.state = "TO_DROPOFF", !.failed_paths = {}]
                          w1 == SetRobot(w, id, r1)
                          blocked == get_blocked_for_robot(w1, id, r1, {})
                      IN  WithRoutes(w1, id, [r1 EXCEPT !.wait_count = 0],
                                     smart_astar(w1, r1.pos, pkg.dropoff, blocked, r1))
                 ELSE IF pkg.status = "WAITING" /\ rb.state = "IDLE"
                 THEN LET r1 == [rb EXCEPT !.state = "TO_PICKUP", !.failed_paths = {}]
                          w1 == SetRobot(w, id, r1)
                          blocked == get_blocked_for_robot(w1, id, r1, {})
                      IN  WithRoutes(w1, id, [r1 EXCEPT !.wait_count = 0],
                                     smart_astar(w1, r1.pos, pkg.pickup, blocked, r1))
                 ELSE {w}

RECURSIVE fix_from(_, _)
fix_from(S, id) ==
    IF id > Len(robots) THEN S
    ELSE fix_from(UNION {fix_one(w, id) : w \in S}, id + 1)

fix_robot_states(w) == fix_from({w}, 1)

force_reset_stuck_state(w, id) ==
    LET rb == w.rb[id]
        r1 == [rb EXCEPT !.state = "IDLE",
                         !.decision_mode = "NORMAL",
                         !.path = <<>>,
                         !.evac_target = NoCell,
                         !.yield_to = NoRobot,
                         !.wait_count = 0,
                         !.failed_paths = {},
                         !.position_history = <<>>,
                         !.evac_start_step = 0,
                         !.yield_start_step = 0,
                         !.momentum = 0]
    IN  IF rb.package # NoPkg /\ w.pk[rb.package].status = "WAITING"
        THEN [w EXCEPT !.pk[rb.package].assigned_to = NoRobot,
                       !.rb[id] = [r1 EXCEPT !.package = NoPkg]]
        ELSE SetRobot(w, id, r1)

\* ---------------------------------------------------------------- DeadlockResolver
\* get_robot_importance giving the progress bonus to every delivering robot
get_robot_importance_unguarded(robot) ==
    LET base == CASE robot.state = "TO_DROPOFF" ->
                        1000 + 500 - Min2(Len(robot.path), 500)
                  [] robot.state = "TO_PICKUP" -> 500
                  [] robot.state = "HOME" -> 100
                  [] robot.state = "EVACUATING" -> 50
                  [] OTHER -> 0
    IN  base + robot.momentum * 20 + robot.wait_count * 10

get_robot_importance(robot) ==
    LET base == CASE robot.state = "TO_DROPOFF" ->
                        1000 + (IF robot.package # NoPkg /\ robot.path # <<>>
                                THEN 500 - Min2(Len(robot.path), 500) ELSE 0)
                  [] robot.state = "TO_PICKUP" -> 500
                  [] robot.state = "HOME" -> 100
                  [] robot.state = "EVACUATING" -> 50
                  [] OTHER -> 0
    IN  base + robot.momentum * 20 + robot.wait_count * 10

\* get_emergency_move: random.shuffle makes every candidate a possible result.
\* Yields records [pos, fp]: the move (NoCell for None) and the robot's
\* failed_paths afterwards (cleared when the first pass finds nothing).
get_emergency_move(w, id) ==
    LET robot == w.rb[id]
        free == {c \in {Shift(robot.pos, Dirs4[i]) : i \in 1..4} :
                    is_safe_cell(c) /\ ~OccupiedByOther(w, id, c)}
        first == free \ robot.failed_paths
    IN  IF first # {} THEN {[pos |-> c, fp |-> robot.failed_paths] : c \in first}
        ELSE IF free # {} THEN {[pos |-> c, fp |-> {}] : c \in free}
        ELSE {[pos |-> NoCell, fp |-> {}]}

RECURSIVE trace_chain_from(_, _, _, _)
trace_chain_from(w, chain, current, depth) ==
    IF depth = 0 \/ w.rb[current].path = <<>> THEN chain
    ELSE LET next_robot == FirstOtherAt(w, current, w.rb[current].path[1])
         IN  IF next_robot = NoRobot THEN chain
             ELSE IF \E k \in 1..Len(chain) : chain[k] = next_robot
             THEN Append(chain, next_robot)
             ELSE trace_chain_from(w, Append(chain, next_robot), next_robot, depth - 1)

trace_wait_chain(w, start_robot) == trace_chain_from(w, <<start_robot>>, start_robot, 10)

\* the ids of a set in ascending order: list(set(...)) of small integers
RECURSIVE SortedIds(_)
SortedIds(S) ==
    IF S = {} THEN <<>>
    ELSE LET m == CHOOSE x \in S : \A y \in S : x <= y
         IN  <<m>> \o SortedIds(S \ {m})

\* detect_deadlock_group, inner loop over `other in waiting_robots`:
\* d = [group, visited, groups, stop]
RECURSIVE detect_inner(_, _, _, _)
detect_inner(w, rid, o, d) ==
    IF o > Len(robots) \/ d.stop THEN d
    ELSE IF /\ w.rb[o].wait_count > DECISION_WAIT_THRESHOLD
            /\ o # rid
            /\ w.rb[o].pos = w.rb[rid].path[1]
    THEN LET g == Append(d.group, o)
             mutual == w.rb[o].path # <<>> /\ w.rb[o].path[1] = w.rb[rid].pos
         IN  detect_inner(w, rid, o + 1,
                [group |-> g, visited |-> d.visited \cup {o},
                 groups |-> IF mutual THEN Append(d.groups, g) ELSE d.groups,
                 stop |-> mutual])
    ELSE detect_inner(w, rid, o + 1, d)

\* detect_deadlock_group, outer loop: acc = [visited, groups]
RECURSIVE detect_outer(_, _, _)
detect_outer(w, rid, acc) ==
    IF rid > Len(robots) THEN acc.groups
    ELSE IF w.rb[rid].wait_count <= DECISION_WAIT_THRESHOLD \/ rid \in acc.visited
    THEN detect_outer(w, rid + 1, acc)
    ELSE LET d0 == [group |-> <<rid>>, visited |-> acc.visited \cup {rid},
                    groups |-> acc.groups, stop |-> FALSE]
             d == IF w.rb[rid].path # <<>> THEN detect_inner(w, rid, 1, d0) ELSE d0
             chain == trace_wait_chain(w, rid)
             cyc == /\ Len(d.group) >= 2
                    /\ Len(chain) >= 3
                    /\ chain[1] = chain[Len(chain)]
             groups == IF cyc
                       THEN Append(d.groups,
                                   SortedIds({chain[k] : k \in 1..(Len(chain) - 1)}))
                       ELSE d.groups
         IN  detect_outer(w, rid + 1, [visited |-> d.visited, groups |-> groups])

detect_deadlock_group(w) ==
    IF Cardinality({o \in RobotIds : w.rb[o].wait_count > DECISION_WAIT_THRESHOLD}) < 2
    THEN <<>>
    ELSE detect_outer(w, 1, [visited |-> {}, groups |-> <<>>])

\* resolve_deadlock_group giving the emergency move to the first member of
\* the group, whatever its importance
resolve_deadlock_group_first(w, group) ==
    IF Len(group) < 2 THEN {w}
    ELSE LET least == group[1]
         IN  {IF e.pos # NoCell
              THEN SetRobot(w, least, [w.rb[least] EXCEPT !.failed_paths = e.fp,
                                                          !.path = <<e.pos>>,
                                                          !.decision_mode = "FORCED",
                                                          !.wait_count = 0])
              ELSE SetRobot(w, least, [w.rb[least] EXCEPT !.failed_paths = e.fp])
              : e \in get_emergency_move(w, least)}

\* resolve_deadlock_group: the first member of minimum importance gets an
\* emergency move
resolve_deadlock_group(w, group) ==
    IF Len(group) < 2 THEN {w}
    ELSE LET k == CHOOSE i \in 1..Len(group) :
                    /\ \A j \in 1..Len(group) :
                         get_robot_importance(w.rb[group[i]])
                            <= get_robot_importance(w.rb[group[j]])
                    /\ \A j \in 1..(i - 1) :
                         get_robot_importance(w.rb[group[j]])
                            > get_robot_importance(w.rb[group[i]])
             least == group[k]
         IN  {IF e.pos # NoCell
              THEN SetRobot(w, least, [w.rb[least] EXCEPT !.failed_paths = e.fp,
                                                          !.path = <<e.pos>>,
                                                          !.decision_mode = "FORCED",
                                                          !.wait_count = 0])
              ELSE SetRobot(w, least, [w.rb[least] EXCEPT !.failed_paths = e.fp])
              : e \in get_emergency_move(w, least)}

RECURSIVE resolve_all(_, _, _)
resolve_all(S, groups, k) ==
    IF k > Len(groups) THEN S
    ELSE resolve_all(UNION {resolve_deadlock_group(w, groups[k]) : w \in S}, groups, k + 1)

\* decide_who_yields with any difference of importance deciding
decide_who_yields_strict(w, r1, r2) ==
    LET imp1 == get_robot_importance(w.rb[r1])
        imp2 == get_robot_importance(w.rb[r2])
        path1_len == IF w.rb[r1].path # <<>> THEN Len(w.rb[r1].path) ELSE 999
        path2_len == IF w.rb[r2].path # <<>> THEN Len(w.rb[r2].path) ELSE 999
    IN  IF imp1 # imp2 THEN (IF imp1 < imp2 THEN r1 ELSE r2)
        ELSE IF path1_len # path2_len THEN (IF path1_len > path2_len THEN r1 ELSE r2)
        ELSE IF r1 < r2 THEN r1 ELSE r2

\* decide_who_yields: the id of the robot that must yield
decide_who_yields(w, r1, r2) ==
    LET imp1 == get_robot_importance(w.rb[r1])
        imp2 == get_robot_importance(w.rb[r2])
        path1_len == IF w.rb[r1].path # <<>> THEN Len(w.rb[r1].path) ELSE 999
        path2_len == IF w.rb[r2].path # <<>> THEN Len(w.rb[r2].path) ELSE 999
    IN  IF Abs(imp1 - imp2) > 100 THEN (IF imp1 < imp2 THEN r1 ELSE r2)
        ELSE IF path1_len # path2_len THEN (IF path1_len > path2_len THEN r1 ELSE r2)
        ELSE IF r1 < r2 THEN r1 ELSE r2

\* find_yield_position that never finds a cell
find_yield_position_none(w, id, yield_to) == NoCell

\* find_yield_position: the first of the 8 neighbours with the best score
find_yield_position(w, id, yield_to) ==
    LET robot == w.rb[id]
        other == w.rb[yield_to]
        other_path == {other.path[k] : k \in 1..Min2(5, Len(other.path))} \cup {other.pos}
        ok(i) == LET nxt == Shift(robot.pos, Dirs8[i])
                 IN  /\ is_safe_cell(nxt)
                     /\ ~OccupiedByOther(w, id, nxt)
                     /\ nxt \notin other_path
        score(i) == LET nxt == Shift(robot.pos, Dirs8[i])
                        dists == {manhattan(nxt, p) : p \in other_path}
                    IN  corridor_map(nxt)
                          + 2 * (CHOOSE m \in dists : \A x \in dists : m <= x)
        cand == {i \in 1..8 : ok(i)}
    IN  IF cand = {} THEN NoCell
        ELSE LET best == CHOOSE i \in cand :
                            /\ \A j \in cand : score(j) <= score(i)
                            /\ \A j \in cand : j < i => score(j) < score(i)
             IN  Shift(robot.pos, Dirs8[best])

\* find_retreat_path: up to 3 cells against last_dir
RECURSIVE retreat_from(_, _, _, _, _)
retreat_from(w, id, current, acc, n) ==
    IF n = 0 THEN acc
    ELSE LET nxt == <<current[1] - w.rb[id].last_dir[1],
                      current[2] - w.rb[id].last_dir[2]>>
         IN  IF ~is_safe_cell(nxt) \/ OccupiedByOther(w, id, nxt) THEN acc
             ELSE retreat_from(w, id, nxt, Append(acc, nxt), n - 1)

find_retreat_path(w, id) == retreat_from(w, id, w.rb[id].pos, <<>>, 3)

\* make_decisive_action: yields records [w, type, data], the world after the
\* call's side effects and the returned (action_type, action_data)
Act(w, type, data) == [w |-> w, type |-> type, data |-> data]

\* the wait >= DEADLOCK_THRESHOLD branch after its IDLE/HOME emergency attempt
decisive_deadlock_rest(w, id) ==
    LET robot == w.rb[id]
        occupant == IF robot.path # <<>> THEN FirstOtherAt(w, id, robot.path[1])
                    ELSE NoRobot
        preempt == /\ occupant # NoRobot
                   /\ get_robot_importance(robot)
                        > get_robot_importance(w.rb[occupant]) + 200
        w1 == IF preempt THEN [w EXCEPT !.rb[occupant].decision_mode = "FORCED"] ELSE w
        evac_pos == IF preempt THEN find_yield_position(w1, occupant, id) ELSE NoCell
    IN  IF preempt /\ evac_pos # NoCell
        THEN {Act([w1 EXCEPT !.rb[occupant].path = <<evac_pos>>,
                             !.rb[occupant].state = "EVACUATING",
                             !.rb[occupant].evac_target = evac_pos],
                  "WAIT", NoCell)}
        ELSE {IF e.pos # NoCell
              THEN Act([w1 EXCEPT !.rb[id].failed_paths = e.fp,
                                  !.rb[id].decision_mode = "FORCED"],
                       "EMERGENCY", e.pos)
              ELSE Act([w1 EXCEPT !.rb[id].failed_paths = e.fp], "REPATH", NoCell)
              : e \in get_emergency_move(w1, id)}

make_decisive_action(w0, id) ==
    LET wait == w0.rb[id].wait_count
        r0 == w0.rb[id]
        r1 == IF r0.stuck_at = r0.pos
              THEN [r0 EXCEPT !.stuck_count = r0.stuck_count + 1]
              ELSE [r0 EXCEPT !.stuck_at = r0.pos, !.stuck_count = 1]
        robot == IF wait >= 3 /\ r1.package # NoPkg
                 THEN [r1 EXCEPT !.failed_paths = {}] ELSE r1
        w == SetRobot(w0, id, robot)
        blocking_robot == IF robot.path # <<>> THEN FirstOtherAt(w, id, robot.path[1])
                          ELSE NoRobot
    IN  IF wait < YIELD_THRESHOLD THEN {Act(w, "WAIT", NoCell)}
        ELSE IF wait < DECISION_WAIT_THRESHOLD
        THEN LET yield_pos ==
                    IF blocking_robot # NoRobot
                       /\ decide_who_yields(w, id, blocking_robot) = id
                    THEN find_yield_position(w, id, blocking_robot) ELSE NoCell
             IN  IF yield_pos # NoCell
                 THEN {Act([w EXCEPT !.rb[id].decision_mode = "YIELDING",
                                     !.rb[id].yield_to = blocking_robot],
                           "YIELD", yield_pos)}
                 ELSE IF robot.path = <<>>
                 THEN {Act([w EXCEPT !.rb[id].failed_paths = {}], "REPATH", NoCell)}
                 ELSE {Act(w, "WAIT", NoCell)}
        ELSE IF wait < FORCE_MOVE_THRESHOLD
        THEN {Act([w EXCEPT !.rb[id].failed_paths =
                                IF robot.path # <<>> THEN {robot.path[1]} ELSE {},
                            !.rb[id].decision_mode = "NORMAL"],
                  "REPATH", NoCell)}
        ELSE IF wait < DEADLOCK_THRESHOLD
        THEN LET wc == [w EXCEPT !.rb[id].failed_paths = {}]
                 retreat_path == find_retreat_path(wc, id)
             IN  IF retreat_path # <<>>
                 THEN {Act([wc EXCEPT !.rb[id].decision_mode = "RETREAT"],
                           "RETREAT", retreat_path)}
                 ELSE {IF e.pos # NoCell
                       THEN Act([wc EXCEPT !.rb[id].failed_paths = e.fp,
                                           !.rb[id].decision_mode = "FORCED"],
                                "EMERGENCY", e.pos)
                       ELSE Act([wc EXCEPT !.rb[id].failed_paths = e.fp],
                                "REPATH", NoCell)
                       : e \in get_emergency_move(wc, id)}
        ELSE LET wc == [w EXCEPT !.rb[id].failed_paths = {},
                                 !.rb[id].stuck_count = 0]
             IN  IF robot.state \in {"IDLE", "HOME"}
                 THEN UNION {IF e.pos # NoCell
                             THEN {Act([wc EXCEPT !.rb[id].failed_paths = e.fp,
                                                  !.rb[id].decision_mode = "FORCED"],
                                       "EMERGENCY", e.pos)}
                             ELSE decisive_deadlock_rest(
                                     [wc EXCEPT !.rb[id].failed_paths = e.fp], id)
                             : e \in get_emergency_move(wc, id)}
                 ELSE decisive_deadlock_rest(wc, id)

\* get_critical_paths: robot id -> set(path) for the robots that deliver
CriticalIds(w) == {o \in RobotIds :
                     w.rb[o].state = "TO_DROPOFF" /\ w.rb[o].package # NoPkg}

PathSet(path) == {path[k] : k \in 1..Len(path)}

get_critical_paths(w) == [o \in CriticalIds(w) |-> PathSet(w.rb[o].path)]

\* is_in_critical_path(...) is not None
is_in_critical_path(w, id, critical_paths) ==
    \E o \in DOMAIN critical_paths : o # id /\ w.rb[id].pos \in critical_paths[o]

is_near_active_dropoff(w, id, radius) ==
    \E o \in RobotIds :
        /\ w.rb[o].state = "TO_DROPOFF"
        /\ w.rb[o].package # NoPkg
        /\ manhattan(w.rb[id].pos, w.pk[w.rb[o].package].dropoff) <= radius

\* find_evacuation_spot ---------------------------------------------------
AllCritical(critical_paths) == UNION {critical_paths[o] : o \in DOMAIN critical_paths}

\* phase 2 of find_evacuation_spot, the four neighbours of one dequeued cell.
\* b = [queue, visited, best_spot, best_score]; scores are doubled
\* (2 * corridor * 2 - dist + 10 for a corner).
RECURSIVE evac_bfs_dirs(_, _, _, _, _, _, _, _)
evac_bfs_dirs(w, id, crit, reserved, pos, dist, i, b) ==
    IF i > 4 THEN b
    ELSE LET nxt == Shift(pos, Dirs4[i])
             seen == [b EXCEPT !.visited = b.visited \cup {nxt}]
             queued == [seen EXCEPT !.queue = Append(b.queue, <<nxt, dist + 1>>)]
             corner_count == Cardinality({j \in 1..4 : Shift(nxt, Dirs4[j]) \in obstacles})
             score2 == corridor_map(nxt) * 4 - dist
                         + (IF corner_count >= 2 THEN 10 ELSE 0)
             b2 == IF nxt \in b.visited THEN b
                   ELSE IF ~is_safe_cell(nxt) THEN seen
                   ELSE IF OccupiedByOther(w, id, nxt) THEN queued
                   ELSE IF nxt \in reserved THEN queued
                   ELSE IF nxt \notin crit /\ score2 > b.best_score
                   THEN [queued EXCEPT !.best_spot = nxt, !.best_score = score2]
                   ELSE queued
         IN  evac_bfs_dirs(w, id, crit, reserved, pos, dist, i + 1, b2)

RECURSIVE evac_bfs(_, _, _, _, _)
evac_bfs(w, id, crit, reserved, b) ==
    IF b.queue = <<>> \/ Cardinality(b.visited) >= 30 THEN b.best_spot
    ELSE LET head == Head(b.queue)
             rest == [b EXCEPT !.queue = Tail(b.queue)]
         IN  IF head[2] > 4 THEN evac_bfs(w, id, crit, reserved, rest)
             ELSE evac_bfs(w, id, crit, reserved,
                           evac_bfs_dirs(w, id, crit, reserved, head[1], head[2], 1, rest))

\* find_evacuation_spot without the test against the critical paths: the
\* first free neighbour
find_evacuation_spot_nearest(w, id, critical_paths, reserved) ==
    LET robot == w.rb[id]
        any == {i \in 1..8 : LET nxt == Shift(robot.pos, Dirs8[i])
                             IN  /\ is_safe_cell(nxt)
                                 /\ ~OccupiedByOther(w, id, nxt)
                                 /\ nxt \notin reserved}
    IN  IF any # {}
        THEN Shift(robot.pos, Dirs8[CHOOSE i \in any : \A j \in any : i <= j])
        ELSE NoCell

find_evacuation_spot(w, id, critical_paths, reserved) ==
    LET robot == w.rb[id]
        crit == AllCritical(critical_paths)
        free(nxt) == /\ is_safe_cell(nxt)
                     /\ ~OccupiedByOther(w, id, nxt)
                     /\ nxt \notin reserved
        near == {i \in 1..4 : LET nxt == Shift(robot.pos, Dirs4[i])
                              IN  /\ free(nxt)
                                  /\ nxt \notin crit
                                  /\ corridor_map(nxt) >= 4}
        far == evac_bfs(w, id, crit, reserved,
                        [queue |-> << <<robot.pos, 0>> >>, visited |-> {robot.pos},
                         best_spot |-> NoCell, best_score |-> -1998])
        any == {i \in 1..8 : free(Shift(robot.pos, Dirs8[i]))}
    IN  IF near # {}
        THEN Shift(robot.pos, Dirs4[CHOOSE i \in near : \A j \in near : i <= j])
        ELSE IF far # NoCell THEN far
        ELSE IF any # {}
        THEN Shift(robot.pos, Dirs8[CHOOSE i \in any : \A j \in any : i <= j])
        ELSE NoCell

\* ---------------------------------------------------------------- main(), per phase
\* 1. Maintenance & Cleanup (main.py 51-61), at tick number s
maintenance(w, s) ==
    LET S1 == fix_robot_states(w)
        S2 == IF s % ORPHAN_CHECK_INTERVAL = 0
              THEN {cleanup_orphaned_assignments(x) : x \in S1} ELSE S1
        S3 == IF s % IDLE_RECHECK_INTERVAL = 0
              THEN UNION {force_idle_robots_to_work(y) :
                            y \in UNION {reassign_stuck_packages(x) : x \in S2}}
              ELSE S2
    IN  UNION {force_idle_robots_to_work(x) : x \in S3}

\* 2. Deadlock Detection & Resolution (main.py 63-68)
deadlock_phase(w) == resolve_all({w}, detect_deadlock_group(w), 1)

\* 3. Critical Path & Evacuation Logic (main.py 73-137), one robot
\* an evacuation check that starts the timer afresh at every tick
evacuation_one_restarting(w0, id, critical_paths, s) ==
    LET h == history_after(w0.rb[id])
        w == [w0 EXCEPT !.rb[id].position_history = h]
        rb == w.rb[id]
    IN  IF oscillating(h) THEN {force_reset_stuck_state(w, id)}
        ELSE
        LET evac_start == IF rb.state = "EVACUATING" THEN s ELSE 0
            r1 == [rb EXCEPT !.evac_start_step = evac_start]
        IN  IF /\ rb.state = "EVACUATING"
               /\ (s - evac_start > 15 \/ rb.pos = rb.evac_target)
            THEN {force_reset_stuck_state(SetRobot(w, id, r1), id)}
            ELSE
            LET yield_start == IF r1.decision_mode = "YIELDING"
                               THEN (IF r1.yield_start_step = 0 THEN s
                                     ELSE r1.yield_start_step)
                               ELSE 0
                r2 == IF r1.decision_mode = "YIELDING" /\ s - yield_start > 10
                      THEN [r1 EXCEPT !.decision_mode = "NORMAL",
                                      !.yield_to = NoRobot,
                                      !.yield_start_step = 0,
                                      !.path = <<>>,
                                      !.wait_count = 0]
                      ELSE [r1 EXCEPT !.yield_start_step = yield_start]
                w2 == SetRobot(w, id, r2)
                evac_spot == IF /\ r2.state \in {"IDLE", "HOME"}
                                /\ is_in_critical_path(w2, id, critical_paths)
                                /\ is_near_active_dropoff(w2, id, 2)
                             THEN find_evacuation_spot(w2, id, critical_paths, {})
                             ELSE NoCell
            IN  IF evac_spot # NoCell /\ manhattan(r2.pos, evac_spot) <= 3
                THEN LET r3 == [r2 EXCEPT !.evac_target = evac_spot,
                                          !.state = "EVACUATING",
                                          !.evac_start_step = s]
                         w3 == SetRobot(w2, id, r3)
                         blocked == get_blocked_for_robot(w3, id, r3, {})
                     IN  WithRoutes(w3, id, [r3 EXCEPT !.wait_count = 0],
                                    smart_astar(w3, r3.pos, evac_spot, blocked, r3))
                ELSE {w2}

\* an evacuation check without the YIELDING timeout
evacuation_one_yielding_on(w0, id, critical_paths, s) ==
    LET h == history_after(w0.rb[id])
        w == [w0 EXCEPT !.rb[id].position_history = h]
        rb == w.rb[id]
    IN  IF oscillating(h) THEN {force_reset_stuck_state(w, id)}
        ELSE
        LET evac_start == IF rb.state = "EVACUATING"
                          THEN (IF rb.evac_start_step = 0 THEN s ELSE rb.evac_start_step)
                          ELSE 0
            r1 == [rb EXCEPT !.evac_start_step = evac_start]
        IN  IF /\ rb.state = "EVACUATING"
               /\ (s - evac_start > 15 \/ rb.pos = rb.evac_target)
            THEN {force_reset_stuck_state(SetRobot(w, id, r1), id)}
            ELSE
            LET yield_start == IF r1.decision_mode = "YIELDING"
                               THEN (IF r1.yield_start_step = 0 THEN s
                                     ELSE r1.yield_start_step)
                               ELSE 0
                r2 == IF r1.decision_mode = "YIELDING" /\ FALSE
                      THEN [r1 EXCEPT !.decision_mode = "NORMAL",
                                      !.yield_to = NoRobot,
                                      !.yield_start_step = 0,
                                      !.path = <<>>,
                                      !.wait_count = 0]
                      ELSE [r1 EXCEPT !.yield_start_step = yield_start]
                w2 == SetRobot(w, id, r2)
                evac_spot == IF /\ r2.state \in {"IDLE", "HOME"}
                                /\ is_in_critical_path(w2, id, critical_paths)
                                /\ is_near_active_dropoff(w2, id, 2)
                             THEN find_evacuation_spot(w2, id, critical_paths, {})
                             ELSE NoCell
            IN  IF evac_spot # NoCell /\ manhattan(r2.pos, evac_spot) <= 3
                THEN LET r3 == [r2 EXCEPT !.evac_target = evac_spot,
                                          !.state = "EVACUATING",
                                          !.evac_start_step = s]
                         w3 == SetRobot(w2, id, r3)
                         blocked == get_blocked_for_robot(w3, id, r3, {})
                     IN  WithRoutes(w3, id, [r3 EXCEPT !.wait_count = 0],
                                    smart_astar(w3, r3.pos, evac_spot, blocked, r3))
                ELSE {w2}

evacuation_one(w0, id, critical_paths, s) ==
    LET h == history_after(w0.rb[id])
        w == [w0 EXCEPT !.rb[id].position_history = h]
        rb == w.rb[id]
    IN  IF oscillating(h) THEN {force_reset_stuck_state(w, id)}
        ELSE
        LET evac_start == IF rb.state = "EVACUATING"
                          THEN (IF rb.evac_start_step = 0 THEN s ELSE rb.evac_start_step)
                          ELSE 0
            r1 == [rb EXCEPT !.evac_start_step = evac_start]
        IN  IF /\ rb.state = "EVACUATING"
               /\ (s - evac_start > 15 \/ rb.pos = rb.evac_target)
            THEN {force_reset_stuck_state(SetRobot(w, id, r1), id)}
            ELSE
            LET yield_start == IF r1.decision_mode = "YIELDING"
                               THEN (IF r1.yield_start_step = 0 THEN s
                                     ELSE r1.yield_start_step)
                               ELSE 0
                r2 == IF r1.decision_mode = "YIELDING" /\ s - yield_start > 10
                      THEN [r1 EXCEPT !.decision_mode = "NORMAL",
                                      !.yield_to = NoRobot,
                                      !.yield_start_step = 0,
                                      !.path = <<>>,
                                      !.wait_count = 0]
                      ELSE [r1 EXCEPT !.yield_start_step = yield_start]
                w2 == SetRobot(w, id, r2)
                evac_spot == IF /\ r2.state \in {"IDLE", "HOME"}
                                /\ is_in_critical_path(w2, id, critical_paths)
                                /\ is_near_active_dropoff(w2, id, 2)
                             THEN find_evacuation_spot(w2, id, critical_paths, {})
                             ELSE NoCell
            IN  IF evac_spot # NoCell /\ manhattan(r2.pos, evac_spot) <= 3
                THEN LET r3 == [r2 EXCEPT !.evac_target = evac_spot,
                                          !.state = "EVACUATING",
                                          !.evac_start_step = s]
                         w3 == SetRobot(w2, id, r3)
                         blocked == get_blocked_for_robot(w3, id, r3, {})
                     IN  WithRoutes(w3, id, [r3 EXCEPT !.wait_count = 0],
                                    smart_astar(w3, r3.pos, evac_spot, blocked, r3))
                ELSE {w2}

RECURSIVE evacuation_from(_, _, _, _)
evacuation_from(S, id, critical_paths, s) ==
    IF id > Len(robots) THEN S
    ELSE evacuation_from(UNION {evacuation_one(w, id, critical_paths, s) : w \in S},
                         id + 1, critical_paths, s)

evacuation_phase(w, s) == evacuation_from({w}, 1, get_critical_paths(w), s)

\* Decision Making with a REPATH that leaves wait_count as it is
apply_action_counting_on(a, id) ==
    LET w == a.w
        rb == w.rb[id]
    IN  CASE a.type = "YIELD" ->
                LET blocked == get_blocked_for_robot(w, id, rb, {})
                    routes == smart_astar(w, rb.pos, a.data, blocked, rb)
                IN  {SetRobot(w, id, [rb EXCEPT
                            !.path = IF p = <<>> THEN <<a.data>> ELSE smooth_path(p, rb),
                            !.evac_target = a.data,
                            !.state = "EVACUATING",
                            !.wait_count = 0]) : p \in routes}
          [] a.type = "RETREAT" ->
                {SetRobot(w, id, [rb EXCEPT !.path = a.data, !.wait_count = 0])}
          [] a.type = "EMERGENCY" ->
                {SetRobot(w, id, [rb EXCEPT !.path = <<a.data>>, !.wait_count = 0])}
          [] a.type = "REPATH" ->
                {SetRobot(w, id, [rb EXCEPT !.path = <<>>])}
          [] OTHER -> {w}

\* 4. Decision Making (main.py 140-181), one robot
apply_action(a, id) ==
    LET w == a.w
        rb == w.rb[id]
    IN  CASE a.type = "YIELD" ->
                LET blocked == get_blocked_for_robot(w, id, rb, {})
                    routes == smart_astar(w, rb.pos, a.data, blocked, rb)
                IN  {SetRobot(w, id, [rb EXCEPT
                            !.path = IF p = <<>> THEN <<a.data>> ELSE smooth_path(p, rb),
                            !.evac_target = a.data,
                            !.state = "EVACUATING",
                            !.wait_count = 0]) : p \in routes}
          [] a.type = "RETREAT" ->
                {SetRobot(w, id, [rb EXCEPT !.path = a.data, !.wait_count = 0])}
          [] a.type = "EMERGENCY" ->
                {SetRobot(w, id, [rb EXCEPT !.path = <<a.data>>, !.wait_count = 0])}
          [] a.type = "REPATH" ->
                {SetRobot(w, id, [rb EXCEPT !.path = <<>>, !.wait_count = 0])}
          [] OTHER -> {w}

decision_one(w, id) ==
    IF w.rb[id].wait_count >= YIELD_THRESHOLD
    THEN UNION {apply_action(a, id) : a \in make_decisive_action(w, id)}
    ELSE {w}

RECURSIVE decision_from(_, _)
decision_from(S, id) ==
    IF id > Len(robots) THEN S
    ELSE decision_from(UNION {decision_one(w, id) : w \in S}, id + 1)

decision_phase(w) == decision_from({w}, 1)

\* sorted_robots without the priority key: the robots in list order
RECURSIVE SortByPriority_listed(_, _)
SortByPriority_listed(rb, S) ==
    IF S = {} THEN <<>>
    ELSE LET m == CHOOSE x \in S : \A y \in S : x <= y
         IN  <<m>> \o SortByPriority_listed(rb, S \ {m})

\* 5. Path Planning & Movement Logic (main.py 183-298)
\* sorted(sim.robots, key=get_robot_priority, reverse=True): a stable sort,
\* so robots of equal priority keep their list order
RECURSIVE SortByPriority(_, _)
SortByPriority(rb, S) ==
    IF S = {} THEN <<>>
    ELSE LET m == CHOOSE x \in S : \A y \in S :
                    \/ get_robot_priority(rb[x]) > get_robot_priority(rb[y])
                    \/ (get_robot_priority(rb[x]) = get_robot_priority(rb[y]) /\ x <= y)
         IN  <<m>> \o SortByPriority(rb, S \ {m})

\* the goal of a robot that has to plan (NoCell: none)
plan_target(w, rb) ==
    CASE rb.state = "TO_PICKUP" /\ rb.package # NoPkg -> w.pk[rb.package].pickup
      [] rb.state = "TO_DROPOFF" /\ rb.package # NoPkg -> w.pk[rb.package].dropoff
      [] rb.state = "EVACUATING" /\ rb.evac_target # NoCell -> rb.evac_target
      [] OTHER -> NoCell

\* route to goal with the given blocked set, then (when with_fallback) the
\* retry with blocked_minimal if that fails
plan_routes(w, id, rb, goal, blocked, with_fallback) ==
    LET first == smart_astar(w, rb.pos, goal, blocked, rb)
    IN  IF with_fallback /\ <<>> \in first
        THEN (first \ {<<>>}) \cup smart_astar(w, rb.pos, goal, blocked_minimal(w, id), rb)
        ELSE first

\* Planning phase (main.py 190-218)
planning_plan(w, id) ==
    LET rb == w.rb[id]
        target == plan_target(w, rb)
    IN  IF rb.state \notin {"IDLE", "HOME"} /\ rb.path = <<>> /\ target # NoCell
        THEN LET r1 == IF rb.wait_count > 2 THEN [rb EXCEPT !.failed_paths = {}] ELSE rb
                 w1 == SetRobot(w, id, r1)
                 blocked == get_blocked_for_robot(w1, id, r1, w1.reserved)
                                \cup r1.failed_paths
             IN  WithRoutes(w1, id, r1, plan_routes(w1, id, r1, target, blocked, TRUE))
        ELSE {w}

\* Move prediction (main.py 221-233)
planning_predict(w, id) ==
    LET rb == w.rb[id]
    IN  IF rb.path # <<>>
        THEN IF is_safe_cell(rb.path[1])
             THEN [w EXCEPT !.planned[id] = rb.path[1]]
             ELSE [w EXCEPT !.planned[id] = rb.pos,
                            !.rb[id].wait_count = rb.wait_count + 1,
                            !.rb[id].momentum = 0]
        ELSE [w EXCEPT !.planned[id] = rb.pos,
                       !.rb[id].wait_count =
                            IF rb.state # "IDLE" THEN rb.wait_count + 1 ELSE rb.wait_count,
                       !.rb[id].momentum = 0]

\* Idle/Home logic (main.py 236-298)
planning_idle_home(w, id) ==
    LET rb == w.rb[id]
    IN  IF rb.state = "IDLE"
        THEN LET r1 == [rb EXCEPT !.failed_paths = {}]
                 w1 == SetRobot(w, id, r1)
                 st == IF r1.package # NoPkg THEN w1.pk[r1.package].status ELSE "NONE"
             IN  IF st = "PICKED"
                 THEN LET r2 == [r1 EXCEPT !.state = "TO_DROPOFF"]
                          w2 == SetRobot(w1, id, r2)
                          blocked == get_blocked_for_robot(w2, id, r2, w2.reserved)
                      IN  WithRoutes(w2, id, [r2 EXCEPT !.wait_count = 0],
                                     smart_astar(w2, r2.pos, w2.pk[r2.package].dropoff,
                                                 blocked, r2))
                 ELSE IF st = "WAITING"
                 THEN LET r2 == [r1 EXCEPT !.state = "TO_PICKUP"]
                          w2 == SetRobot(w1, id, r2)
                          blocked == get_blocked_for_robot(w2, id, r2, w2.reserved)
                      IN  WithRoutes(w2, id, [r2 EXCEPT !.wait_count = 0],
                                     smart_astar(w2, r2.pos, w2.pk[r2.package].pickup,
                                                 blocked, r2))
                 ELSE LET pid == request_package_pid(w1, id)
                      IN  IF pid # NoPkg
                          THEN LET r2 == [r1 EXCEPT !.package = pid]
                                   w2 == [w1 EXCEPT !.pk[pid].assigned_to = id,
                                                    !.rb[id] = r2]
                                   blocked == get_blocked_for_robot(w2, id, r2, w2.reserved)
                               IN  WithRoutes(w2, id,
                                        [r2 EXCEPT !.state = "TO_PICKUP",
                                                   !.decision_mode = "NORMAL",
                                                   !.failed_paths = {},
                                                   !.wait_count = 0],
                                        plan_routes(w2, id, r2, w2.pk[pid].pickup,
                                                    blocked, TRUE))
                          ELSE IF r1.pos # r1.home
                          THEN LET blocked == get_blocked_for_robot(w1, id, r1, w1.reserved)
                               IN  WithRoutes(w1, id,
                                        [r1 EXCEPT !.state = "HOME", !.wait_count = 0],
                                        smart_astar(w1, r1.pos, r1.home, blocked, r1))
                          ELSE {w1}
        ELSE IF rb.state = "HOME"
        THEN IF rb.pos = rb.home
             THEN {SetRobot(w, id, [rb EXCEPT !.state = "IDLE",
                                              !.path = <<>>,
                                              !.decision_mode = "NORMAL",
                                              !.failed_paths = {},
                                              !.wait_count = 0])}
             ELSE IF rb.path = <<>>
             THEN LET blocked == get_blocked_for_robot(w, id, rb, w.reserved)
                  IN  WithRoutes(w, id, rb, smart_astar(w, rb.pos, rb.home, blocked, rb))
             ELSE {w}
        ELSE {w}

planning_one(w, id) ==
    UNION {planning_idle_home(planning_predict(x, id), id) : x \in planning_plan(w, id)}

RECURSIVE planning_from(_, _, _)
planning_from(S, order, k) ==
    IF k > Len(order) THEN S
    ELSE planning_from(UNION {planning_one(w, order[k]) : w \in S}, order, k + 1)

planning_phase(w, order) == planning_from({w}, order, 1)

\* 6. Execute Moves (main.py 301-418)
\* SimulationController.is_collision_free
is_collision_free(w, id, pos) == ~OccupiedByOther(w, id, pos)

\* SimulationController.is_valid_move
is_valid_move(w, id, pos, reserved) ==
    /\ is_safe_cell(pos)
    /\ is_collision_free(w, id, pos)
    /\ can_enter_dropoff(w, w.rb[id], pos)
    /\ can_enter_pickup(w, w.rb[id], pos)
    /\ pos \notin reserved

\* SimulationController.is_swap
is_swap(w, id, nxt, planned) ==
    \E oid \in DOMAIN planned :
        /\ oid # id
        /\ planned[oid] = w.rb[id].pos
        /\ nxt = w.rb[oid].pos

\* Check Task Completion (main.py 370-418), for the robot that just moved
task_completion(w, id) ==
    LET rb == w.rb[id]
    IN  IF rb.state = "TO_PICKUP" /\ rb.package # NoPkg
           /\ rb.pos = w.pk[rb.package].pickup
        THEN LET w1 == [w EXCEPT !.pk[rb.package].status = "PICKED"]
                 blocked == get_blocked_for_robot(w1, id, rb, w1.reserved)
                                \cup rb.failed_paths
             IN  WithRoutes(w1, id,
                            [rb EXCEPT !.state = "TO_DROPOFF",
                                       !.decision_mode = "NORMAL",
                                       !.failed_paths = {}],
                            smart_astar(w1, rb.pos, w1.pk[rb.package].dropoff, blocked, rb))
        ELSE IF rb.state = "TO_DROPOFF" /\ rb.package # NoPkg
                /\ rb.pos = w.pk[rb.package].dropoff
        THEN LET r1 == [rb EXCEPT !.package = NoPkg]
                 w1 == [w EXCEPT !.pk[rb.package].status = "DELIVERED",
                                 !.pk[rb.package].assigned_to = NoRobot,
                                 !.rb[id] = r1]
                 blocked == get_blocked_for_robot(w1, id, r1, w1.reserved)
                                \cup r1.failed_paths
             IN  WithRoutes(w1, id,
                            [r1 EXCEPT !.state = "HOME",
                                       !.decision_mode = "NORMAL",
                                       !.failed_paths = {}],
                            smart_astar(w1, r1.pos, r1.home, blocked, r1))
        ELSE IF rb.state = "HOME" /\ rb.pos = rb.home
        THEN {SetRobot(w, id, [rb EXCEPT !.state = "IDLE",
                                         !.path = <<>>,
                                         !.decision_mode = "NORMAL",
                                         !.failed_paths = {},
                                         !.wait_count = 0])}
        ELSE IF rb.state = "EVACUATING" /\ rb.pos = rb.evac_target
        THEN {SetRobot(w, id, [rb EXCEPT !.state = "IDLE",
                                         !.evac_target = NoCell,
                                         !.path = <<>>,
                                         !.decision_mode = "NORMAL",
                                         !.yield_to = NoRobot])}
        ELSE {w}

\* a commit that moves the robot and leaves the cell it moved to at the
\* head of its path
commit_move_unpopped(w, id, nxt) ==
    [w EXCEPT !.rb[id] = [w.rb[id] EXCEPT !.pos = nxt, !.wait_count = 0],
              !.reserved = w.reserved \cup {nxt}]

\* a commit that keeps the position history of the robot
commit_move_remembering(w, id, nxt) ==
    LET rb == w.rb[id]
        new_dir == get_direction(rb.pos, nxt)
        turned == is_turn(rb.last_dir, new_dir) /\ rb.last_dir # <<0, 0>>
        r1 == [rb EXCEPT !.momentum = IF turned THEN Max2(0, rb.momentum - 2)
                                      ELSE Min2(5, rb.momentum + 1),
                         !.last_dir = new_dir,
                         !.pos = nxt,
                         !.path = IF rb.path # <<>> THEN Tail(rb.path) ELSE <<>>,
                         !.wait_count = 0]
        settle == r1.decision_mode \notin {"NORMAL", "IDLE"}
                    /\ (r1.state # "EVACUATING" \/ r1.pos = r1.evac_target)
        r2 == IF settle THEN [r1 EXCEPT !.decision_mode = "NORMAL", !.yield_to = NoRobot]
              ELSE r1
    IN  [w EXCEPT !.rb[id] = r2, !.reserved = w.reserved \cup {nxt}]

\* the committed move of robot id to nxt (main.py 344-367)
commit_move(w, id, nxt) ==
    LET rb == w.rb[id]
        new_dir == get_direction(rb.pos, nxt)
        turned == is_turn(rb.last_dir, new_dir) /\ rb.last_dir # <<0, 0>>
        r1 == [rb EXCEPT !.momentum = IF turned THEN Max2(0, rb.momentum - 2)
                                      ELSE Min2(5, rb.momentum + 1),
                         !.last_dir = new_dir,
                         !.pos = nxt,
                         !.position_history = <<>>,
                         !.path = IF rb.path # <<>> THEN Tail(rb.path) ELSE <<>>,
                         !.wait_count = 0]
        settle == r1.decision_mode \notin {"NORMAL", "IDLE"}
                    /\ (r1.state # "EVACUATING" \/ r1.pos = r1.evac_target)
        r2 == IF settle THEN [r1 EXCEPT !.decision_mode = "NORMAL", !.yield_to = NoRobot]
              ELSE r1
    IN  [w EXCEPT !.rb[id] = r2, !.reserved = w.reserved \cup {nxt}]

\* Execute Moves with the is_valid_move, is_swap and occupied tests lost:
\* whatever was planned is committed
execute_one_unguarded(w, id) ==
    LET rb == w.rb[id]
        nxt == w.planned[id]
    IN  IF nxt = rb.pos
        THEN {[w EXCEPT !.reserved = w.reserved \cup {rb.pos},
                        !.rb[id].wait_count = rb.wait_count + 1,
                        !.rb[id].momentum = Max2(0, rb.momentum - 1)]}
        ELSE task_completion(commit_move(w, id, nxt), id)

execute_one(w, id) ==
    LET rb == w.rb[id]
        nxt == w.planned[id]
        stay == [w EXCEPT !.reserved = w.reserved \cup {rb.pos},
                          !.rb[id].wait_count = rb.wait_count + 1]
    IN  IF nxt = rb.pos
        THEN {[stay EXCEPT !.rb[id].momentum = Max2(0, rb.momentum - 1)]}
        ELSE IF ~is_valid_move(w, id, nxt, w.reserved)
        THEN {[stay EXCEPT !.rb[id].failed_paths = rb.failed_paths \cup {nxt},
                           !.rb[id].momentum = 0,
                           !.rb[id].path =
                                IF is_safe_cell(nxt)
                                   /\ (~can_enter_dropoff(w, rb, nxt)
                                       \/ ~can_enter_pickup(w, rb, nxt))
                                THEN <<>> ELSE rb.path]}
        ELSE IF is_swap(w, id, nxt, w.planned)
        THEN {[stay EXCEPT !.rb[id].momentum = 0]}
        ELSE IF OccupiedByOther(w, id, nxt) \/ nxt \in w.reserved
        THEN {[stay EXCEPT !.rb[id].momentum = Max2(0, rb.momentum - 1)]}
        ELSE task_completion(commit_move(w, id, nxt), id)

RECURSIVE execute_from(_, _, _)
execute_from(S, order, k) ==
    IF k > Len(order) THEN S
    ELSE execute_from(UNION {execute_one(w, order[k]) : w \in S}, order, k + 1)

execute_phase(w, order) == execute_from({w}, order, 1)

\* 7. Final Path Check (main.py 421-450), one robot
final_one(w, id) ==
    LET rb == w.rb[id]
    IN  IF rb.state = "IDLE"
        THEN IF rb.package = NoPkg /\ rb.pos # rb.home
             THEN LET blocked == get_blocked_for_robot(w, id, rb, w.reserved)
                  IN  WithRoutes(w, id, [rb EXCEPT !.state = "HOME"],
                                 smart_astar(w, rb.pos, rb.home, blocked, rb))
             ELSE {w}
        ELSE IF rb.path = <<>> /\ rb.wait_count > YIELD_THRESHOLD
        THEN LET target == IF rb.state = "HOME" THEN rb.home ELSE plan_target(w, rb)
             IN  IF target = NoCell THEN {w}
                 ELSE LET blocked == get_blocked_for_robot(w, id, rb, w.reserved)
                                        \cup rb.failed_paths
                      IN  {IF p # <<>>
                           THEN SetRobot(w, id, [rb EXCEPT !.path = p,
                                                           !.wait_count = 0,
                                                           !.failed_paths = {}])
                           ELSE w
                           : p \in smart_astar(w, rb.pos, target, blocked, rb)}
        ELSE {w}

RECURSIVE final_from(_, _)
final_from(S, id) ==
    IF id > Len(robots) THEN S
    ELSE final_from(UNION {final_one(w, id) : w \in S}, id + 1)

final_phase(w) == final_from({w}, 1)

\* a win condition that accepts a HOME robot wherever it stands
all_tasks_complete_anywhere(rb, pk) ==
    /\ \A p \in PackageIds : pk[p].status = "DELIVERED"
    /\ \A o \in RobotIds : rb[o].state \in {"IDLE", "HOME"}

\* Win Condition (main.py 455-468)
all_tasks_complete(rb, pk) ==
    /\ \A p \in PackageIds : pk[p].status = "DELIVERED"
    /\ \A o \in RobotIds :
        /\ rb[o].state \in {"IDLE", "HOME"}
        /\ (rb[o].state = "HOME" => rb[o].pos = rb[o].home)

\* ---------------------------------------------------------------- ReservationTable
\* settings.TIME_HORIZON is 30; the model plans and dwells over a shorter
\* horizon
TIME_HORIZON == 3
MAX_WAIT_ACTIONS == 5

\* a table is [res |-> set of bookings <<tick, cell, robot id>>, at most one
\* per (tick, cell), idx |-> robot id -> list of <<cell, tick>>]; a tick of
\* `reservations` whose dict has become empty is not told apart from a
\* tick without dict
EmptyTable == [res |-> {}, idx |-> [o \in RobotIds |-> <<>>]]

\* no operation on the table yet
NoOp == [name |-> "none", robot |-> NoRobot, path |-> <<>>, start |-> 0, n |-> 0,
         prev |-> [name |-> "none", robot |-> NoRobot, path |-> <<>>,
                   start |-> 0, before |-> {}]]

CurTable == [res |-> reservations, idx |-> robot_reservations]

\* reserve: the booking replaces whatever was booked at (timestep, position)
reserve(T, robot_id, position, timestep) ==
    [res |-> {b \in T.res : ~(b[1] = timestep /\ b[2] = position)}
                \cup {<<timestep, position, robot_id>>},
     idx |-> [T.idx EXCEPT ![robot_id] = Append(@, <<position, timestep>>)]]

\* a clear_robot that forgets the list and leaves the bookings in place
clear_robot_index_only(T, robot_id) ==
    [res |-> T.res, idx |-> [T.idx EXCEPT ![robot_id] = <<>>]]

\* clear_robot: deletes the listed bookings that still belong to the robot
clear_robot(T, robot_id) ==
    [res |-> {b \in T.res :
                ~(/\ b[3] = robot_id
                  /\ \E k \in 1..Len(T.idx[robot_id]) :
                        T.idx[robot_id][k] = <<b[2], b[1]>>)},
     idx |-> [T.idx EXCEPT ![robot_id] = <<>>]]

\* reserve path[k], path[k+1], ... at current_time, current_time + 1, ...
RECURSIVE reserve_cells(_, _, _, _, _)
reserve_cells(T, robot_id, path, k, current_time) ==
    IF k > Len(path) THEN T
    ELSE reserve_cells(reserve(T, robot_id, path[k], current_time),
                       robot_id, path, k + 1, current_time + 1)

\* reserve last_pos for t in range(current_time, current_time + n)
RECURSIVE reserve_dwell(_, _, _, _, _)
reserve_dwell(T, robot_id, last_pos, current_time, n) ==
    IF n = 0 THEN T
    ELSE reserve_dwell(reserve(T, robot_id, last_pos, current_time),
                       robot_id, last_pos, current_time + 1, n - 1)

\* a reserve_path that keeps the robot's earlier bookings
reserve_path_keeping(T, robot_id, path, start_time) ==
    LET T2 == reserve_cells(T, robot_id, path, 1, start_time)
    IN  IF path = <<>> THEN T2
        ELSE reserve_dwell(T2, robot_id, path[Len(path)],
                           start_time + Len(path), TIME_HORIZON)

reserve_path(T, robot_id, path, start_time) ==
    LET T1 == clear_robot(T, robot_id)
        T2 == reserve_cells(T1, robot_id, path, 1, start_time)
    IN  IF path = <<>> THEN T2
        ELSE reserve_dwell(T2, robot_id, path[Len(path)],
                           start_time + Len(path), TIME_HORIZON)

\* exclude_robot = NoRobot stands for exclude_robot=None
is_reserved(T, position, timestep, exclude_robot) ==
    \E b \in T.res :
        /\ b[1] = timestep /\ b[2] = position
        /\ ~(exclude_robot # NoRobot /\ b[3] = exclude_robot)

get_reserved_by(T, position, timestep) ==
    IF \E b \in T.res : b[1] = timestep /\ b[2] = position
    THEN (CHOOSE b \in T.res : b[1] = timestep /\ b[2] = position)[3]
    ELSE NoRobot

\* a clear_old that purges the bookings and leaves the robots' lists alone
clear_old_table_only(T, current_time) ==
    [res |-> {b \in T.res : b[1] >= current_time}, idx |-> T.idx]

clear_old(T, current_time) ==
    [res |-> {b \in T.res : b[1] >= current_time},
     idx |-> [o \in RobotIds |->
                SelectSeq(T.idx[o], LAMBDA e : e[2] >= current_time)]]

\* ---------------------------------------------------------------- TimeSpaceAStar
will_swap(T, current, nxt, current_time, robot_id) ==
    LET other_id == get_reserved_by(T, nxt, current_time)
    IN  /\ other_id # NoRobot
        /\ other_id # robot_id
        /\ get_reserved_by(T, current, current_time + 1) = other_id

\* the number of entries at the end of path that equal current
RECURSIVE consecutive_waits(_, _)
consecutive_waits(path, current) ==
    IF path = <<>> \/ path[Len(path)] # current THEN 0
    ELSE 1 + consecutive_waits(SubSeq(path, 1, Len(path) - 1), current)

\* the successors find_path pushes for a search node [cur, t, path]
TimeSpaceSuccessors(T, w, robot, id, goal, blocked, n) ==
    {[cur |-> Shift(n.cur, Dirs4[i]), t |-> n.t + 1,
      path |-> Append(n.path, Shift(n.cur, Dirs4[i]))] :
        i \in {j \in 1..4 :
                 LET nxt == Shift(n.cur, Dirs4[j])
                 IN  /\ in_bounds(nxt[1], nxt[2])
                     /\ nxt \notin obstacles
                     /\ nxt \notin blocked
                     /\ (nxt # goal => can_enter_dropoff(w, robot, nxt))
                     /\ (nxt # goal => can_enter_pickup(w, robot, nxt))
                     /\ ~is_reserved(T, nxt, n.t + 1, id)
                     /\ ~will_swap(T, n.cur, nxt, n.t, id)}}
    \cup
    (IF /\ consecutive_waits(n.path, n.cur) < MAX_WAIT_ACTIONS
        /\ ~is_reserved(T, n.cur, n.t + 1, id)
     THEN {[cur |-> n.cur, t |-> n.t + 1, path |-> Append(n.path, n.cur)]}
     ELSE {})

\* every node the time-space search can pop at the goal: nodes are expanded
\* while they are off the goal and their time is below max_time
RECURSIVE TimeSpaceWalks(_, _, _, _, _, _, _, _, _)
TimeSpaceWalks(T, w, robot, id, goal, blocked, max_time, frontier, found) ==
    LET open == {n \in frontier : n.cur # goal /\ n.t < max_time}
        next == UNION {TimeSpaceSuccessors(T, w, robot, id, goal, blocked, n) :
                         n \in open}
    IN  IF open = {} THEN found \cup {n \in frontier : n.cur = goal}
        ELSE TimeSpaceWalks(T, w, robot, id, goal, blocked, max_time, next,
                            found \cup {n \in frontier : n.cur = goal})

\* _fallback_astar: A* without time and without reservations; the route is
\* returned as `path + [current]`
fallback_astar(w, start, goal, robot, blocked) ==
    IF start = goal THEN {<<>>}
    ELSE LET routes == {p \in SimpleWalks(w, robot, start, goal,
                                          blocked \cup obstacles, {<<>>}, {}) :
                          p[Len(p)] = goal}
         IN  IF routes = {} THEN {<<>>}
             ELSE {Append(p, goal) : p \in routes}

\* find_path of a TimeSpaceAStar built without route cache and route
\* analyzer: [] when start = goal; a route the time-space search can reach
\* the goal by, returned as `path + [current]`; the fallback route when the
\* search finds none
find_path(T, w, start, goal, start_time, id, robot, blocked) ==
    IF start = goal THEN {<<>>}
    ELSE LET hits == TimeSpaceWalks(T, w, robot, id, goal, blocked,
                                    start_time + TIME_HORIZON,
                                    {[cur |-> start, t |-> start_time,
                                      path |-> <<>>]}, {})
         IN  IF hits # {} THEN {Append(n.path, goal) : n \in hits}
             ELSE fallback_astar(w, start, goal, robot, blocked)

\* ---------------------------------------------------------------- path finder clock
\* the per-tick update main() calls (main.py 49): the path finder's clock is
\* set to the tick and the bookings before it are purged
update_pathfinder_step(s) ==
    LET T == clear_old(CurTable, s)
    IN  /\ current_step' = s
        /\ reservations' = T.res
        /\ robot_reservations' = T.idx

\* ---------------------------------------------------------------- the state machine
\* SimulationController._init_robots / _init_packages
InitRobot(home) ==
    [pos |-> home, home |-> home, state |-> "IDLE", path |-> <<>>,
     package |-> NoPkg, wait_count |-> 0, evac_target |-> NoCell,
     last_dir |-> <<0, 0>>, momentum |-> 0, decision_mode |-> "NORMAL",
     yield_to |-> NoRobot, stuck_at |-> NoCell, stuck_count |-> 0,
     failed_paths |-> {}, position_history |-> <<>>,
     evac_start_step |-> 0, yield_start_step |-> 0]

InitPackage(pickup, dropoff) ==
    [pickup |-> pickup, dropoff |-> dropoff, status |-> "WAITING",
     assigned_to |-> NoRobot]

\* the configurations the model is run on: walls, robot positions and
\* packages as _validate_config accepts them (in bounds, outside the walls),
\* with the robots on pairwise distinct cells and the packages a batch that
\* shares one pickup cell and one dropoff cell
WallChoices == {{}, {<<0, 2>>}, {<<1, 2>>}}

Init ==
    /\ rows = ROWS
    /\ cols = COLS
    /\ max_steps = MAX_STEPS
    /\ obstacles \in WallChoices
    /\ robots \in {[o \in 1..NumRobots |-> InitRobot(h[o])] :
                     h \in {f \in [1..NumRobots -> Cells \ obstacles] :
                              \A a, b \in 1..NumRobots : a # b => f[a] # f[b]}}
    /\ packages \in {[p \in 0..(NumPackages - 1) |-> InitPackage(pickup, dropoff)] :
                       pickup \in Cells \ obstacles, dropoff \in Cells \ obstacles}
    /\ step = 0
    /\ pc = "maintenance"
    /\ sorted_robots = <<>>
    /\ reserved_positions = {}
    /\ planned_moves = <<>>
    /\ tick_start_pos = [o \in RobotIds |-> robots[o].pos]
    /\ tick_start_status = [p \in PackageIds |-> "WAITING"]
    /\ outcome = "running"
    /\ reservations = EmptyTable.res
    /\ robot_reservations = EmptyTable.idx
    /\ current_step = 0
    /\ found_path = <<>>
    /\ res_op = NoOp
    /\ res_before = EmptyTable.res
    /\ idx_before = EmptyTable.idx

CurWorld == [rb |-> robots, pk |-> packages,
             planned |-> planned_moves, reserved |-> reserved_positions]

\* main.py 46-61: step += 1, the path finder's clock is updated, then
\* maintenance
Maintenance ==
    /\ pc = "maintenance"
    /\ step' = step + 1
    /\ tick_start_pos' = [o \in RobotIds |-> robots[o].pos]
    /\ tick_start_status' = [p \in PackageIds |-> packages[p].status]
    /\ \E w \in maintenance(CurWorld, step + 1) :
            robots' = w.rb /\ packages' = w.pk
    /\ pc' = "deadlock"
    /\ update_pathfinder_step(step + 1)
    /\ UNCHANGED <<obstacles, rows, cols, max_steps, sorted_robots,
                   reserved_positions, planned_moves, outcome>>
    /\ UNCHANGED <<found_path, res_op, res_before, idx_before>>

\* main.py 63-68
DeadlockResolution ==
    /\ pc = "deadlock"
    /\ \E w \in deadlock_phase(CurWorld) : robots' = w.rb /\ packages' = w.pk
    /\ pc' = "evacuation"
    /\ UNCHANGED <<obstacles, rows, cols, max_steps, step, sorted_robots,
                   reserved_positions, planned_moves,
                   tick_start_pos, tick_start_status, outcome>>
    /\ UNCHANGED resvars

\* main.py 70-137
Evacuation ==
    /\ pc = "evacuation"
    /\ \E w \in evacuation_phase(CurWorld, step) : robots' = w.rb /\ packages' = w.pk
    /\ pc' = "decision"
    /\ UNCHANGED <<obstacles, rows, cols, max_steps, step, sorted_robots,
                   reserved_positions, planned_moves,
                   tick_start_pos, tick_start_status, outcome>>
    /\ UNCHANGED resvars

\* main.py 139-181
Decision ==
    /\ pc = "decision"
    /\ \E w \in decision_phase(CurWorld) : robots' = w.rb /\ packages' = w.pk
    /\ pc' = "planning"
    /\ UNCHANGED <<obstacles, rows, cols, max_steps, step, sorted_robots,
                   reserved_positions, planned_moves,
                   tick_start_pos, tick_start_status, outcome>>
    /\ UNCHANGED resvars

\* main.py 183-298
Planning ==
    /\ pc = "planning"
    /\ LET order == SortByPriority(robots, RobotIds)
           w0 == [rb |-> robots, pk |-> packages,
                  planned |-> [o \in RobotIds |-> robots[o].pos], reserved |-> {}]
       IN  /\ sorted_robots' = order
           /\ \E w \in planning_phase(w0, order) :
                /\ robots' = w.rb
                /\ packages' = w.pk
                /\ planned_moves' = w.planned
                /\ reserved_positions' = w.reserved
    /\ pc' = "execute"
    /\ UNCHANGED <<obstacles, rows, cols, max_steps, step, tick_start_pos,
                   tick_start_status, outcome>>
    /\ UNCHANGED resvars

\* main.py 300-418
Execute ==
    /\ pc = "execute"
    /\ \E w \in execute_phase(CurWorld, sorted_robots) :
            /\ robots' = w.rb
            /\ packages' = w.pk
            /\ reserved_positions' = w.reserved
    /\ pc' = "final_check"
    /\ UNCHANGED <<obstacles, rows, cols, max_steps, step, sorted_robots, planned_moves,
                   tick_start_pos, tick_start_status, outcome>>
    /\ UNCHANGED resvars

\* main.py 420-450
FinalPathCheck ==
    /\ pc = "final_check"
    /\ \E w \in final_phase(CurWorld) : robots' = w.rb /\ packages' = w.pk
    /\ pc' = "win_check"
    /\ UNCHANGED <<obstacles, rows, cols, max_steps, step, sorted_robots,
                   reserved_positions, planned_moves,
                   tick_start_pos, tick_start_status, outcome>>
    /\ UNCHANGED resvars

\* a loop end that lets one more tick run before it stops on MAX_STEPS
WinCheck_late ==
    /\ pc = "win_check"
    /\ IF all_tasks_complete(robots, packages)
       THEN outcome' = "win" /\ pc' = "done"
       ELSE IF step > max_steps + 1
       THEN outcome' = "timeout" /\ pc' = "done"
       ELSE outcome' = outcome /\ pc' = "maintenance"
    /\ UNCHANGED <<robots, packages, obstacles, rows, cols, max_steps, step, sorted_robots,
                   reserved_positions, planned_moves, tick_start_pos,
                   tick_start_status>>
    /\ UNCHANGED resvars

\* main.py 452-474: the tick is over; stop on a win or after MAX_STEPS
WinCheck ==
    /\ pc = "win_check"
    /\ IF all_tasks_complete(robots, packages)
       THEN outcome' = "win" /\ pc' = "done"
       ELSE IF step > max_steps
       THEN outcome' = "timeout" /\ pc' = "done"
       ELSE outcome' = outcome /\ pc' = "maintenance"
    /\ UNCHANGED <<robots, packages, obstacles, rows, cols, max_steps, step, sorted_robots,
                   reserved_positions, planned_moves, tick_start_pos,
                   tick_start_status>>
    /\ UNCHANGED resvars

Next ==
    \/ Maintenance
    \/ DeadlockResolution
    \/ Evacuation
    \/ Decision
    \/ Planning
    \/ Execute
    \/ FinalPathCheck
    \/ WinCheck

Spec == Init /\ [][Next]_vars

\* ---------------------------------------------------------------- the reservation table at work
\* The reservation table and the time-space search driven directly, as
\* TestReservationTable and TestTimeSpaceAStar drive them, over the robots
\* and packages of one loaded configuration.
MaxOps == 3
MaxClock == 2
MaxPathLen == 2

\* the paths handed to reserve_path for a robot: cell sequences that leave
\* the robot's cell by moves to a 4-neighbour or waits
ResPaths(a) ==
    {p \in UNION {[1..n -> Cells \ obstacles] : n \in 0..MaxPathLen} :
        /\ p # <<>> => manhattan(robots[a].pos, p[1]) <= 1
        /\ \A k \in 1..(Len(p) - 1) : manhattan(p[k], p[k + 1]) <= 1}

ResInit ==
    /\ Init
    /\ obstacles = {}
    /\ robots[1].home = <<0, 0>>
    /\ robots[2].home = <<1, 0>>
    /\ packages[0].pickup = <<1, 1>>
    /\ packages[0].dropoff = <<0, 1>>

\* history: the operation, the one before it (with the bookings it found)
\* and the count of operations
Record(name, a, p, s) ==
    /\ res_op' = [name |-> name, robot |-> a, path |-> p, start |-> s,
                  n |-> res_op.n + 1,
                  prev |-> [name |-> res_op.name, robot |-> res_op.robot,
                            path |-> res_op.path, start |-> res_op.start,
                            before |-> res_before]]
    /\ res_before' = reservations
    /\ idx_before' = robot_reservations

\* ReservationTable.reserve_path, from the clock's tick on
ReservePath ==
    /\ res_op.n < MaxOps
    /\ \E a \in RobotIds :
       \E p \in ResPaths(a) :
        LET T == reserve_path(CurTable, a, p, current_step)
        IN  /\ reservations' = T.res
            /\ robot_reservations' = T.idx
            /\ Record("reserve_path", a, p, current_step)
    /\ UNCHANGED <<current_step, found_path>>
    /\ UNCHANGED mainvars

\* ReservationTable.clear_robot
ClearRobot ==
    /\ res_op.n < MaxOps
    /\ \E a \in RobotIds :
        LET T == clear_robot(CurTable, a)
        IN  /\ reservations' = T.res
            /\ robot_reservations' = T.idx
            /\ Record("clear_robot", a, <<>>, current_step)
    /\ UNCHANGED <<current_step, found_path>>
    /\ UNCHANGED mainvars

\* the start of a tick: the clock moves on and old bookings are purged
PathfinderTick ==
    /\ res_op.n < MaxOps
    /\ current_step < MaxClock
    /\ update_pathfinder_step(current_step + 1)
    /\ Record("update_pathfinder_step", NoRobot, <<>>, current_step + 1)
    /\ UNCHANGED found_path
    /\ UNCHANGED mainvars

\* TimeSpaceAStar.find_path for a robot, from its cell at the clock's tick
FindPath ==
    /\ res_op.n < MaxOps
    /\ \E a \in RobotIds, goal \in Cells \ obstacles :
        \E p \in find_path(CurTable, CurWorld, robots[a].pos, goal,
                           current_step, a, robots[a], {}) :
            /\ found_path' = p
            /\ Record("find_path", a, <<goal>>, current_step)
    /\ UNCHANGED <<reservations, robot_reservations, current_step>>
    /\ UNCHANGED mainvars

\* a path finder that returns the path without booking it
plan_path_unbooked(T, w, a, goal, p) == T

\* the path finder's search for a robot: the path find_path returns is
\* booked under the robot's id from the clock's tick on
plan_path(T, w, a, goal, p) ==
    IF p # <<>> THEN reserve_path(T, a, p, current_step) ELSE T

PlanPath ==
    /\ res_op.n < MaxOps
    /\ \E a \in RobotIds, goal \in Cells \ obstacles :
        \E p \in find_path(CurTable, CurWorld, robots[a].pos, goal,
                           current_step, a, robots[a], {}) :
            LET T == plan_path(CurTable, CurWorld, a, goal, p)
            IN  /\ found_path' = p
                /\ reservations' = T.res
                /\ robot_reservations' = T.idx
                /\ Record("plan_path", a, <<goal>>, current_step)
    /\ UNCHANGED current_step
    /\ UNCHANGED mainvars

ResNext ==
    \/ ReservePath
    \/ ClearRobot
    \/ PathfinderTick
    \/ FindPath
    \/ PlanPath

ResSpec == ResInit /\ [][ResNext]_vars

\* ---------------------------------------------------------------- the resolver called directly
\* DeadlockResolver.get_emergency_move called on the controller between two
\* ticks, as TestDeadlockResolverIntegration.test_get_emergency_move calls
\* it: the move it returns is recorded and the run ends there.
GetEmergencyMove ==
    /\ res_op.name = "none"
    /\ pc = "maintenance"
    /\ \E a \in RobotIds :
       \E e \in get_emergency_move(CurWorld, a) :
        /\ robots' = [robots EXCEPT ![a].failed_paths = e.fp]
        /\ found_path' = IF e.pos = NoCell THEN <<>> ELSE <<e.pos>>
        /\ res_op' = [NoOp EXCEPT !.name = "get_emergency_move", !.robot = a]
    /\ UNCHANGED <<packages, obstacles, rows, cols, max_steps, step, pc, sorted_robots,
                   reserved_positions, planned_moves, tick_start_pos,
                   tick_start_status, outcome>>
    /\ UNCHANGED <<reservations, robot_reservations, current_step,
                   res_before, idx_before>>

\* the tick loop, until the resolver is called
TickLoop == res_op.name = "none" /\ Next

ResolverNext ==
    \/ TickLoop
    \/ GetEmergencyMove

ResolverSpec == Init /\ [][ResolverNext]_vars

\* ---------------------------------------------------------------- the decision helpers called directly
\* get_robot_importance, decide_who_yields, resolve_deadlock_group and
\* make_decisive_action called on a loaded controller, as
\* TestDeadlockResolverIntegration calls the resolver's methods, with the
\* robots in the states a run can leave them in: a state, a path of up to
\* two cells from the robot's cell, a wait count in the YIELD band, some
\* momentum, possibly a banned first cell.

\* the free 4-neighbours of a cell
FreeNeighbours(c) == {n \in {Shift(c, Dirs4[i]) : i \in 1..4} : is_safe_cell(n)}

LadderInit ==
    LET LadderStates == {"IDLE", "TO_PICKUP", "TO_DROPOFF", "HOME", "EVACUATING"}

        \* the states of the robots after the first
        LadderOtherStates == {"TO_DROPOFF", "HOME", "EVACUATING"}

        \* (wait_count, momentum) of the first robot
        LadderCounters == {<<YIELD_THRESHOLD, 0>>, <<YIELD_THRESHOLD, 1>>,
                           <<YIELD_THRESHOLD + 1, 0>>}

        \* no path, or one step to a free neighbour; the first robot may hold that
        \* cell twice (smart_astar repeats the goal)
        PathsFrom(c) == {<<>>} \cup {<<n>> : n \in FreeNeighbours(c)}

        DrawnRobot(o, home, st, path, wait, mom, banned) ==
            [InitRobot(home) EXCEPT
                !.state = st,
                !.package = IF st \in {"TO_PICKUP", "TO_DROPOFF"} THEN o - 1 ELSE NoPkg,
                !.path = path,
                !.wait_count = wait,
                !.momentum = mom,
                !.failed_paths = IF banned /\ path # <<>> THEN {path[1]} ELSE {}]

        \* package o - 1 is the one robot o works on, if it works on one
        DrawnPackage(st) ==
            [InitPackage(<<0, 0>>, <<1, 1>>) EXCEPT
                !.status = CASE st = "TO_PICKUP" -> "WAITING"
                             [] st = "TO_DROPOFF" -> "PICKED"
                             [] OTHER -> "DELIVERED",
                !.assigned_to = NoRobot]
    IN
    /\ rows = ROWS
    /\ cols = COLS
    /\ max_steps = MAX_STEPS
    /\ obstacles \in WallChoices
    /\ \E h \in {f \in [1..NumRobots -> Cells \ obstacles] :
                    \A a, b \in 1..NumRobots : a # b => f[a] # f[b]},
          st \in {f \in [1..NumRobots -> LadderStates] :
                    \A o \in 2..NumRobots : f[o] \in LadderOtherStates},
          cnt \in LadderCounters :
       \E path \in {f \in [1..NumRobots -> {<<>>} \cup {<<c>> : c \in Cells}] :
                       \A o \in 1..NumRobots : f[o] \in PathsFrom(h[o])},
          twice \in BOOLEAN :
          /\ twice => path[1] # <<>>
          /\ robots = [o \in 1..NumRobots |->
                         IF o = 1
                         THEN DrawnRobot(o, h[o], st[o],
                                         IF twice THEN path[o] \o path[o]
                                         ELSE path[o],
                                         cnt[1], cnt[2], cnt[2] > 0)
                         ELSE DrawnRobot(o, h[o], st[o], path[o],
                                         YIELD_THRESHOLD, 0, FALSE)]
          /\ packages = [q \in 0..(NumPackages - 1) |->
                           LET pk == DrawnPackage(IF q + 1 <= NumRobots
                                                  THEN st[q + 1] ELSE "IDLE")
                           IN  IF pk.status = "DELIVERED" THEN pk
                               ELSE [pk EXCEPT !.assigned_to = q + 1]]
    /\ step = 0
    /\ pc = "maintenance"
    /\ sorted_robots = <<>>
    /\ reserved_positions = {}
    /\ planned_moves = <<>>
    /\ tick_start_pos = [o \in RobotIds |-> robots[o].pos]
    /\ tick_start_status = [p \in PackageIds |-> packages[p].status]
    /\ outcome = "running"
    /\ reservations = EmptyTable.res
    /\ robot_reservations = EmptyTable.idx
    /\ current_step = 0
    /\ found_path = <<>>
    /\ res_op = NoOp
    /\ res_before = EmptyTable.res
    /\ idx_before = EmptyTable.idx

\* what a direct call leaves behind: its name, its arguments, what it
\* returned and the robots as they were before it
Called(name, args, result) ==
    [name |-> name, args |-> args, result |-> result, before |-> robots,
     packages_before |-> packages]

LadderFrame ==
    /\ UNCHANGED <<obstacles, rows, cols, max_steps, step, pc, sorted_robots,
                   reserved_positions, planned_moves, tick_start_pos,
                   tick_start_status, outcome>>
    /\ UNCHANGED <<reservations, robot_reservations, current_step, found_path,
                   res_before, idx_before>>

GetRobotImportance ==
    /\ res_op.name = "none"
    /\ \E a \in RobotIds :
          res_op' = Called("get_robot_importance", <<a>>,
                           get_robot_importance(robots[a]))
    /\ UNCHANGED <<robots, packages>>
    /\ LadderFrame

DecideWhoYields ==
    /\ res_op.name = "none"
    /\ \E a, b \in RobotIds :
          /\ a # b
          /\ res_op' = Called("decide_who_yields", <<a, b>>,
                              decide_who_yields(CurWorld, a, b))
    /\ UNCHANGED <<robots, packages>>
    /\ LadderFrame

\* the groups a caller can pass: the robots in either order
LadderGroups == {g \in [1..NumRobots -> 1..NumRobots] :
                    \A i, j \in 1..NumRobots : i # j => g[i] # g[j]}

ResolveDeadlockGroup ==
    /\ res_op.name = "none"
    /\ \E group \in LadderGroups :
       \E w \in resolve_deadlock_group(CurWorld, group) :
          /\ robots' = w.rb
          /\ packages' = w.pk
          /\ res_op' = Called("resolve_deadlock_group", group, NoRobot)
    /\ LadderFrame

MakeDecisiveAction ==
    /\ res_op.name = "none"
    /\ \E a \in RobotIds :
       \E act \in make_decisive_action(CurWorld, a) :
          /\ robots' = act.w.rb
          /\ packages' = act.w.pk
          /\ res_op' = Called("make_decisive_action", <<a>>,
                              [type |-> act.type, data |-> act.data])
    /\ LadderFrame

LadderNext ==
    \/ GetRobotImportance
    \/ DecideWhoYields
    \/ ResolveDeadlockGroup
    \/ MakeDecisiveAction

LadderSpec == LadderInit /\ [][LadderNext]_vars

\* ---------------------------------------------------------------- the group detector called directly
\* detect_deadlock_group called on a loaded controller, as
\* test_detect_deadlock_group calls it, with robots that have been held up
\* to and past DECISION_WAIT_THRESHOLD: each on its own cell, with no path
\* or one step to a neighbouring cell
DetectInit ==
    /\ rows = ROWS
    /\ cols = COLS
    /\ max_steps = MAX_STEPS
    /\ obstacles \in WallChoices
    /\ \E h \in {f \in [1..NumRobots -> Cells \ obstacles] :
                    \A a, b \in 1..NumRobots : a # b => f[a] # f[b]},
          st \in [1..NumRobots -> {"TO_PICKUP", "TO_DROPOFF", "HOME"}],
          wait \in [1..NumRobots -> {DECISION_WAIT_THRESHOLD,
                                     DECISION_WAIT_THRESHOLD + 1}] :
       \E path \in {f \in [1..NumRobots -> {<<>>} \cup {<<c>> : c \in Cells}] :
                       \A o \in 1..NumRobots :
                           f[o] = <<>> \/ f[o][1] \in FreeNeighbours(h[o])} :
          /\ robots = [o \in 1..NumRobots |->
                         [InitRobot(h[o]) EXCEPT
                             !.state = st[o],
                             !.package = IF st[o] = "HOME" \/ o > NumPackages
                                         THEN NoPkg ELSE o - 1,
                             !.path = path[o],
                             !.wait_count = wait[o]]]
          /\ packages = [q \in 0..(NumPackages - 1) |->
                           LET owner == IF q + 1 <= NumRobots THEN st[q + 1]
                                        ELSE "HOME"
                           IN  [InitPackage(<<0, 0>>, <<1, 1>>) EXCEPT
                                   !.status = CASE owner = "TO_PICKUP" -> "WAITING"
                                                [] owner = "TO_DROPOFF" -> "PICKED"
                                                [] OTHER -> "DELIVERED",
                                   !.assigned_to = IF owner = "HOME" THEN NoRobot
                                                   ELSE q + 1]]
    /\ step = 0
    /\ pc = "maintenance"
    /\ sorted_robots = <<>>
    /\ reserved_positions = {}
    /\ planned_moves = <<>>
    /\ tick_start_pos = [o \in RobotIds |-> robots[o].pos]
    /\ tick_start_status = [p \in PackageIds |-> packages[p].status]
    /\ outcome = "running"
    /\ reservations = EmptyTable.res
    /\ robot_reservations = EmptyTable.idx
    /\ current_step = 0
    /\ found_path = <<>>
    /\ res_op = NoOp
    /\ res_before = EmptyTable.res
    /\ idx_before = EmptyTable.idx

DetectDeadlockGroup ==
    /\ res_op.name = "none"
    /\ res_op' = Called("detect_deadlock_group", <<>>,
                        detect_deadlock_group(CurWorld))
    /\ UNCHANGED <<robots, packages>>
    /\ LadderFrame

DetectSpec == DetectInit /\ [][DetectDeadlockGroup]_vars

\* ---------------------------------------------------------------- the tick loop on a 2x4 floor
\* main() on one pattern of a wider floor: no walls, robots at home on
\* (1,0) and (1,3), both packages waiting on (0,3), one bound for (0,2) and
\* one for (0,0)
YieldCols == 4

YieldInit ==
    /\ rows = ROWS
    /\ cols = YieldCols
    /\ max_steps = MAX_STEPS
    /\ obstacles = {}
    /\ robots = [o \in 1..NumRobots |->
                    InitRobot(IF o = 1 THEN <<1, 0>> ELSE <<1, o + 1>>)]
    /\ packages = [p \in 0..(NumPackages - 1) |->
                    InitPackage(<<0, 3>>, IF p = 0 THEN <<0, 2>> ELSE <<0, 0>>)]
    /\ step = 0
    /\ pc = "maintenance"
    /\ sorted_robots = <<>>
    /\ reserved_positions = {}
    /\ planned_moves = <<>>
    /\ tick_start_pos = [o \in RobotIds |-> robots[o].pos]
    /\ tick_start_status = [p \in PackageIds |-> "WAITING"]
    /\ outcome = "running"
    /\ reservations = EmptyTable.res
    /\ robot_reservations = EmptyTable.idx
    /\ current_step = 0
    /\ found_path = <<>>
    /\ res_op = NoOp
    /\ res_before = EmptyTable.res
    /\ idx_before = EmptyTable.idx

YieldSpec == YieldInit /\ [][Next]_vars

\* the same pattern with "max_steps": 15 in its settings: the loop gives up
\* after tick 16
LivelockSteps == 15

LivelockInit ==
    /\ rows = ROWS
    /\ cols = YieldCols
    /\ max_steps = LivelockSteps
    /\ obstacles = {}
    /\ robots = [o \in 1..NumRobots |->
                    InitRobot(IF o = 1 THEN <<1, 0>> ELSE <<1, o + 1>>)]
    /\ packages = [p \in 0..(NumPackages - 1) |->
                    InitPackage(<<0, 3>>, IF p = 0 THEN <<0, 2>> ELSE <<0, 0>>)]
    /\ step = 0
    /\ pc = "maintenance"
    /\ sorted_robots = <<>>
    /\ reserved_positions = {}
    /\ planned_moves = <<>>
    /\ tick_start_pos = [o \in RobotIds |-> robots[o].pos]
    /\ tick_start_status = [p \in PackageIds |-> "WAITING"]
    /\ outcome = "running"
    /\ reservations = EmptyTable.res
    /\ robot_reservations = EmptyTable.idx
    /\ current_step = 0
    /\ found_path = <<>>
    /\ res_op = NoOp
    /\ res_before = EmptyTable.res
    /\ idx_before = EmptyTable.idx

LivelockSpec == LivelockInit /\ [][Next]_vars

\* ---------------------------------------------------------------- a walled-in robot
\* main() on a 2x4 floor where robot 1 stands on (0,0) behind walls on (0,1)
\* and (1,0), robot 2 is at home on (1,3), and both packages wait on (0,3)
\* for (1,1); the loop is given enough ticks for a wait counter that rises
\* every tick to pass REASSIGN_THRESHOLD and for a delivery after that
WalledSteps == 40

WalledInit ==
    /\ rows = ROWS
    /\ cols = YieldCols
    /\ max_steps = WalledSteps
    /\ obstacles = {<<0, 1>>, <<1, 0>>}
    /\ robots = [o \in 1..NumRobots |->
                    InitRobot(IF o = 1 THEN <<0, 0>> ELSE <<1, o + 1>>)]
    /\ packages = [p \in 0..(NumPackages - 1) |->
                    InitPackage(<<0, 3>>, <<1, 1>>)]
    /\ step = 0
    /\ pc = "maintenance"
    /\ sorted_robots = <<>>
    /\ reserved_positions = {}
    /\ planned_moves = <<>>
    /\ tick_start_pos = [o \in RobotIds |-> robots[o].pos]
    /\ tick_start_status = [p \in PackageIds |-> "WAITING"]
    /\ outcome = "running"
    /\ reservations = EmptyTable.res
    /\ robot_reservations = EmptyTable.idx
    /\ current_step = 0
    /\ found_path = <<>>
    /\ res_op = NoOp
    /\ res_before = EmptyTable.res
    /\ idx_before = EmptyTable.idx

WalledSpec == WalledInit /\ [][Next]_vars

\* main() on a 3x4 floor whose inner cells (1,1) and (1,2) are walls, so that
\* the free cells form a ring: robot 1 at home on (0,1), robot 2 at home on
\* (2,1), package 0 waiting on (1,3) and package 1 on (2,0), both for (0,1);
\* the loop is given enough ticks for an evacuation round the ring to outlast
\* the evacuation timeout
RingRows == 3
RingSteps == 24

RingInit ==
    /\ rows = RingRows
    /\ cols = YieldCols
    /\ max_steps = RingSteps
    /\ obstacles = {<<1, 1>>, <<1, 2>>}
    /\ robots = [o \in 1..NumRobots |->
                    InitRobot(IF o = 1 THEN <<0, 1>> ELSE <<2, 1>>)]
    /\ packages = [p \in 0..(NumPackages - 1) |->
                    InitPackage(IF p = 0 THEN <<1, 3>> ELSE <<2, 0>>, <<0, 1>>)]
    /\ step = 0
    /\ pc = "maintenance"
    /\ sorted_robots = <<>>
    /\ reserved_positions = {}
    /\ planned_moves = <<>>
    /\ tick_start_pos = [o \in RobotIds |-> robots[o].pos]
    /\ tick_start_status = [p \in PackageIds |-> "WAITING"]
    /\ outcome = "running"
    /\ reservations = EmptyTable.res
    /\ robot_reservations = EmptyTable.idx
    /\ current_step = 0
    /\ found_path = <<>>
    /\ res_op = NoOp
    /\ res_before = EmptyTable.res
    /\ idx_before = EmptyTable.idx

RingSpec == RingInit /\ [][Next]_vars

\* main() on a 3x7 floor whose inner cells (1,1)..(1,5) are walls, a ring of
\* 16 cells: robot 1 at home on (0,4), robot 2 at home on (2,1), both
\* packages waiting on (2,0) for (0,1).  The robots meet head-on at the top
\* left corner, robot 1 yields to a cell that it can only reach the long way
\* round, and the trip outlasts the YIELDING timeout
LongRingCols == 7
LongRingSteps == 24

LongRingInit ==
    /\ rows = RingRows
    /\ cols = LongRingCols
    /\ max_steps = LongRingSteps
    /\ obstacles = {<<1, c>> : c \in 1..(LongRingCols - 2)}
    /\ robots = [o \in 1..NumRobots |->
                    InitRobot(IF o = 1 THEN <<0, 4>> ELSE <<2, 1>>)]
    /\ packages = [p \in 0..(NumPackages - 1) |->
                    InitPackage(<<2, 0>>, <<0, 1>>)]
    /\ step = 0
    /\ pc = "maintenance"
    /\ sorted_robots = <<>>
    /\ reserved_positions = {}
    /\ planned_moves = <<>>
    /\ tick_start_pos = [o \in RobotIds |-> robots[o].pos]
    /\ tick_start_status = [p \in PackageIds |-> "WAITING"]
    /\ outcome = "running"
    /\ reservations = EmptyTable.res
    /\ robot_reservations = EmptyTable.idx
    /\ current_step = 0
    /\ found_path = <<>>
    /\ res_op = NoOp
    /\ res_before = EmptyTable.res
    /\ idx_before = EmptyTable.idx

LongRingSpec == LongRingInit /\ [][Next]_vars

\* ---------------------------------------------------------------- the tick loop with two separate orders
\* main() on the open floor of Init with two packages that have their own
\* pickup and dropoff cells, (1,0) for (0,2) and (1,1) for (0,1); the robots
\* start on any two distinct cells
CrossInit ==
    /\ rows = ROWS
    /\ cols = COLS
    /\ max_steps = MAX_STEPS
    /\ obstacles = {}
    /\ robots \in {[o \in 1..NumRobots |-> InitRobot(h[o])] :
                     h \in {f \in [1..NumRobots -> Cells \ obstacles] :
                              \A a, b \in 1..NumRobots : a # b => f[a] # f[b]}}
    /\ packages = [p \in 0..(NumPackages - 1) |->
                    IF p = 0 THEN InitPackage(<<1, 0>>, <<0, 2>>)
                             ELSE InitPackage(<<1, 1>>, <<0, 1>>)]
    /\ step = 0
    /\ pc = "maintenance"
    /\ sorted_robots = <<>>
    /\ reserved_positions = {}
    /\ planned_moves = <<>>
    /\ tick_start_pos = [o \in RobotIds |-> robots[o].pos]
    /\ tick_start_status = [p \in PackageIds |-> "WAITING"]
    /\ outcome = "running"
    /\ reservations = EmptyTable.res
    /\ robot_reservations = EmptyTable.idx
    /\ current_step = 0
    /\ found_path = <<>>
    /\ res_op = NoOp
    /\ res_before = EmptyTable.res
    /\ idx_before = EmptyTable.idx

CrossSpec == CrossInit /\ [][Next]_vars

\* ---------------------------------------------------------------- the straight-delivery scenario
\* main() on an empty 10x10 floor with one robot at home on (0,0) and one
\* package waiting on (0,5) for (5,5); MAX_STEPS keeps its default
DEFAULT_MAX_STEPS == 1000

ScenarioInit ==
    /\ rows = 10
    /\ cols = 10
    /\ max_steps = DEFAULT_MAX_STEPS
    /\ obstacles = {}
    /\ robots = [o \in 1..1 |-> InitRobot(<<0, 0>>)]
    /\ packages = [p \in 0..0 |-> InitPackage(<<0, 5>>, <<5, 5>>)]
    /\ step = 0
    /\ pc = "maintenance"
    /\ sorted_robots = <<>>
    /\ reserved_positions = {}
    /\ planned_moves = <<>>
    /\ tick_start_pos = [o \in RobotIds |-> robots[o].pos]
    /\ tick_start_status = [p \in PackageIds |-> "WAITING"]
    /\ outcome = "running"
    /\ reservations = EmptyTable.res
    /\ robot_reservations = EmptyTable.idx
    /\ current_step = 0
    /\ found_path = <<>>
    /\ res_op = NoOp
    /\ res_before = EmptyTable.res
    /\ idx_before = EmptyTable.idx

ScenarioSpec == ScenarioInit /\ [][Next]_vars

\* ---------------------------------------------------------------- the tick loop with nothing to carry
\* main() on the patterns of Init with an empty package list: every robot
\* starts IDLE on its home cell and stays without work
IdleInit ==
    /\ rows = ROWS
    /\ cols = COLS
    /\ max_steps = MAX_STEPS
    /\ obstacles \in WallChoices
    /\ robots \in {[o \in 1..NumRobots |-> InitRobot(h[o])] :
                     h \in {f \in [1..NumRobots -> Cells \ obstacles] :
                              \A a, b \in 1..NumRobots : a # b => f[a] # f[b]}}
    /\ packages = <<>>
    /\ step = 0
    /\ pc = "maintenance"
    /\ sorted_robots = <<>>
    /\ reserved_positions = {}
    /\ planned_moves = <<>>
    /\ tick_start_pos = [o \in RobotIds |-> robots[o].pos]
    /\ tick_start_status = <<>>
    /\ outcome = "running"
    /\ reservations = EmptyTable.res
    /\ robot_reservations = EmptyTable.idx
    /\ current_step = 0
    /\ found_path = <<>>
    /\ res_op = NoOp
    /\ res_before = EmptyTable.res
    /\ idx_before = EmptyTable.idx

IdleSpec == IdleInit /\ [][Next]_vars

\* the tick has run all its phases (the state main() renders)
TickEnd == pc = "win_check"

\* ---------------------------------------------------------------- properties
\* C1: from pairwise distinct starting cells, after the execute-moves phase
\* of every tick no two distinct robots stand on the same cell, and so no
\* two robots commit to the same destination cell in one tick.
C1_OneRobotPerCell ==
    \A a, b \in RobotIds : a # b => robots[a].pos # robots[b].pos

\* C1 witness: two robots planned the same destination in one tick and one
\* of them was committed there
C1_Witness ==
    /\ pc = "final_check"
    /\ \E a, b \in RobotIds :
        /\ a # b
        /\ planned_moves[a] = planned_moves[b]
        /\ robots[a].pos = planned_moves[a]
        /\ tick_start_pos[a] # robots[a].pos

\* C2: every robot starts on an in-bounds cell that is no obstacle, and after
\* every tick every robot's pos is still inside the ROWS x COLS grid and is
\* not an obstacle cell.
C2_PosInGridOffObstacles ==
    \A o \in RobotIds :
        /\ in_bounds(robots[o].pos[1], robots[o].pos[2])
        /\ robots[o].pos \notin obstacles

\* C2 witness: a robot has moved in a tick on a grid that has an obstacle
\* next to the cell it came from
C2_Witness ==
    /\ pc = "final_check"
    /\ \E o \in RobotIds :
        /\ robots[o].pos # tick_start_pos[o]
        /\ \E i \in 1..4 : Shift(tick_start_pos[o], Dirs4[i]) \in obstacles

\* C9: no two robots exchange cells within a single tick: there are never
\* robots A # B such that A ends the tick on the cell B had when the tick
\* began and B ends it on the cell A had.
C9_NoSwap ==
    \A a, b \in RobotIds :
        a # b => ~(/\ robots[a].pos = tick_start_pos[b]
                   /\ robots[b].pos = tick_start_pos[a])

\* C9 witness: two robots planned to exchange their cells and the moves of
\* the tick were executed
C9_Witness ==
    /\ pc = "final_check"
    /\ \E a, b \in RobotIds :
        /\ a # b
        /\ planned_moves[a] = tick_start_pos[b]
        /\ planned_moves[b] = tick_start_pos[a]

\* C3: a package's status only ever changes WAITING -> PICKED and
\* PICKED -> DELIVERED: a PICKED package never returns to WAITING and a
\* DELIVERED package never changes its status again.
C3_StatusOnlyAdvances ==
    [][\A p \in PackageIds :
          /\ packages[p].status = "PICKED" => packages'[p].status # "WAITING"
          /\ packages[p].status = "DELIVERED" => packages'[p].status = "DELIVERED"]_vars

\* C4: at the end of every tick every PICKED package is held by exactly one
\* robot, and that robot's state is TO_DROPOFF.
C4_PickedHasOneCarrier ==
    TickEnd =>
        \A p \in PackageIds :
            packages[p].status = "PICKED" =>
                /\ Cardinality({o \in RobotIds : robots[o].package = p}) = 1
                /\ \A o \in RobotIds :
                      robots[o].package = p => robots[o].state = "TO_DROPOFF"

\* C5: at the end of every tick every robot in state TO_DROPOFF has a
\* package, that package is PICKED and its assigned_to is the robot's id.
C5_ToDropoffOwnsPicked ==
    TickEnd =>
        \A o \in RobotIds :
            robots[o].state = "TO_DROPOFF" =>
                /\ robots[o].package # NoPkg
                /\ packages[robots[o].package].status = "PICKED"
                /\ packages[robots[o].package].assigned_to = o

\* C6: at the end of every tick every robot in state TO_PICKUP has a
\* package, that package is WAITING and its assigned_to is the robot's id.
C6_ToPickupOwnsWaiting ==
    TickEnd =>
        \A o \in RobotIds :
            robots[o].state = "TO_PICKUP" =>
                /\ robots[o].package # NoPkg
                /\ packages[robots[o].package].status = "WAITING"
                /\ packages[robots[o].package].assigned_to = o

\* C7: at the end of every tick every WAITING package is unassigned, or is
\* assigned to one robot that is in state TO_PICKUP and holds it, while no
\* second robot holds it.
C7_WaitingAssignment ==
    TickEnd =>
        \A p \in PackageIds :
            packages[p].status = "WAITING" =>
                \/ packages[p].assigned_to = NoRobot
                \/ /\ packages[p].assigned_to \in RobotIds
                   /\ robots[packages[p].assigned_to].state = "TO_PICKUP"
                   /\ \A o \in RobotIds :
                         robots[o].package = p <=> o = packages[p].assigned_to

\* C8: at the end of every tick every DELIVERED package has no assigned_to
\* and no robot holds it.
C8_DeliveredReleased ==
    TickEnd =>
        \A p \in PackageIds :
            packages[p].status = "DELIVERED" =>
                /\ packages[p].assigned_to = NoRobot
                /\ \A o \in RobotIds : robots[o].package # p

\* C10: standing on the target cell settles the task transition in the same
\* tick: at the end of every tick no robot is TO_PICKUP on the pickup cell
\* of its still WAITING package, and none is TO_DROPOFF on the dropoff cell
\* of its still PICKED package, however the robot came to stand there.
C10_TargetSettledInTick ==
    TickEnd =>
        \A o \in RobotIds :
            robots[o].package # NoPkg =>
                /\ ~(/\ robots[o].state = "TO_PICKUP"
                     /\ robots[o].pos = packages[robots[o].package].pickup
                     /\ packages[robots[o].package].status = "WAITING")
                /\ ~(/\ robots[o].state = "TO_DROPOFF"
                     /\ robots[o].pos = packages[robots[o].package].dropoff
                     /\ packages[robots[o].package].status = "PICKED")

PhaseOrder(p) ==
    CASE p = "deadlock" -> 1
      [] p = "evacuation" -> 2
      [] p = "decision" -> 3
      [] p = "planning" -> 4
      [] p = "execute" -> 5
      [] p = "final_check" -> 6
      [] p = "win_check" -> 7
      [] p = "maintenance" -> 8
      [] p = "done" -> 9

Progress(s, p) == 10 * s + PhaseOrder(p)

\* the phase the loop stands at has an outcome to move on with
PhaseCompletes ==
    CASE pc = "maintenance" -> maintenance(CurWorld, step + 1) # {}
      [] pc = "deadlock" -> deadlock_phase(CurWorld) # {}
      [] pc = "evacuation" -> evacuation_phase(CurWorld, step) # {}
      [] pc = "decision" -> decision_phase(CurWorld) # {}
      [] pc = "planning" ->
            planning_phase([rb |-> robots, pk |-> packages,
                            planned |-> [o \in RobotIds |-> robots[o].pos],
                            reserved |-> {}],
                           SortByPriority(robots, RobotIds)) # {}
      [] pc = "execute" -> execute_phase(CurWorld, sorted_robots) # {}
      [] pc = "final_check" -> final_phase(CurWorld) # {}
      [] pc = "win_check" -> TRUE
      [] pc = "done" -> FALSE

\* C12: the tick loop always terminates: it stops with the win outcome or,
\* once the tick counter exceeds MAX_STEPS, with the timeout outcome, so it
\* never runs more than MAX_STEPS + 1 ticks, and a stop caused by MAX_STEPS
\* is reported as the timeout outcome, distinct from the win outcome.
\* Termination is stated as: every step of the loop raises the bounded
\* progress measure, and until the loop has stopped the phase it stands at
\* completes.
C12_LoopTerminates ==
    /\ [][Progress(step', pc') > Progress(step, pc)]_vars
    /\ [](pc = "done" \/ PhaseCompletes)
    /\ [](step <= max_steps + 1)
    /\ [](pc = "done" <=> outcome \in {"win", "timeout"})
    /\ [](outcome = "timeout" =>
            step = max_steps + 1 /\ ~all_tasks_complete(robots, packages))
    /\ [](outcome = "win" => all_tasks_complete(robots, packages))

\* C12 witness: the loop was stopped by MAX_STEPS while packages were still
\* undelivered
C12_Witness ==
    /\ pc = "done"
    /\ outcome = "timeout"
    /\ step = max_steps + 1
    /\ \E p \in PackageIds : packages[p].status # "DELIVERED"

\* the state main() shows for tick t: the tick has run all its phases, or
\* the run has ended in it
ShownAt(t) == step = t /\ pc \in {"win_check", "done"}

\* the straight-delivery scenario is the one loaded
StraightDelivery ==
    /\ rows = 10 /\ cols = 10 /\ obstacles = {}
    /\ RobotIds = {1} /\ robots[1].home = <<0, 0>>
    /\ PackageIds = {0}
    /\ packages[0].pickup = <<0, 5>> /\ packages[0].dropoff = <<5, 5>>

\* the package is WAITING up to tick 4, PICKED from tick 5 to tick 9 and
\* DELIVERED from tick 10 on
DeliveryTimeline ==
    /\ (\E t \in 0..4 : ShownAt(t)) => packages[0].status = "WAITING"
    /\ (\E t \in 5..9 : ShownAt(t)) => packages[0].status = "PICKED"
    /\ (step >= 10 /\ pc \in {"win_check", "done"})
          => packages[0].status = "DELIVERED"

\* C13 (as claimed): in the straight-delivery scenario the package becomes
\* PICKED at tick 5 and DELIVERED at tick 10, and the robot is back on (0,0)
\* by tick 15.
C13_StraightDelivery ==
    StraightDelivery =>
        /\ DeliveryTimeline
        /\ (step >= 15 /\ pc \in {"win_check", "done"})
              => robots[1].pos = <<0, 0>>

\* C13 (amended): in the straight-delivery scenario the package becomes
\* PICKED at tick 5 and DELIVERED at tick 10, and the robot is back on (0,0)
\* by tick 20.
C13_StraightDeliveryBy20 ==
    StraightDelivery =>
        /\ DeliveryTimeline
        /\ (step >= 20 /\ pc \in {"win_check", "done"})
              => robots[1].pos = <<0, 0>>

\* C13 witness: tick 20 of the scenario ends with the package delivered and
\* the robot on its home cell
C13_Witness ==
    /\ StraightDelivery
    /\ ShownAt(20)
    /\ packages[0].status = "DELIVERED"
    /\ robots[1].pos = <<0, 0>>
    /\ robots[1].state = "IDLE"

\* two robots block each other head-on: each one's next path cell is the
\* cell the other stands on
HeadOn(rb, a, b) ==
    /\ a # b
    /\ rb[a].path # <<>> /\ rb[a].path[1] = rb[b].pos
    /\ rb[b].path # <<>> /\ rb[b].path[1] = rb[a].pos

InYieldBand(r) ==
    r.wait_count >= YIELD_THRESHOLD /\ r.wait_count < DECISION_WAIT_THRESHOLD

\* the decision phase took the YIELD action for robot a, giving way to b
YieldedTo(a, b) ==
    /\ robots'[a].state = "EVACUATING"
    /\ robots'[a].decision_mode = "YIELDING"
    /\ robots'[a].yield_to = b
    /\ robots'[a].wait_count = 0

\* C14: when two robots block each other head-on and both wait counts are
\* in [YIELD_THRESHOLD, DECISION_WAIT_THRESHOLD), the decision phase of the
\* tick makes exactly one of the two yield: never both, never neither.
C14_ExactlyOneYields ==
    [][\A a, b \in RobotIds :
          (/\ pc = "decision"
           /\ HeadOn(robots, a, b)
           /\ InYieldBand(robots[a])
           /\ InYieldBand(robots[b]))
          => (YieldedTo(a, b) # YieldedTo(b, a))]_vars

\* the (tick, cell) pairs reserve_path(a, p, s) books: p[i] at s + i, then
\* the last cell for the TIME_HORIZON ticks after s + len(p) - 1
BookedPairs(p, s) ==
    {<<s + i - 1, p[i]>> : i \in 1..Len(p)}
    \cup (IF p = <<>> THEN {}
          ELSE {<<t, p[Len(p)]>> :
                  t \in (s + Len(p))..(s + Len(p) + TIME_HORIZON - 1)})

\* the (tick, cell) pairs the bookings B give to robot a
HeldBy(B, a) == {<<b[1], b[2]>> : b \in {x \in B : x[3] = a}}

\* the (tick, cell) pairs on robot a's own list
ListedBy(idx, a) == {<<idx[a][k][2], idx[a][k][1]>> : k \in 1..Len(idx[a])}

\* clear_robot(a) has just run right after reserve_path(a, p, s)
RoundTrip ==
    /\ res_op.name = "clear_robot"
    /\ res_op.prev.name = "reserve_path"
    /\ res_op.prev.robot = res_op.robot

\* C15 as claimed: for every table T, other robots' bookings on the same
\* (cell, tick) pairs and the robot's own earlier bookings included,
\* reserve_path(a, p, s) followed by clear_robot(a) leaves the bookings
\* equal to T, and nothing is reported reserved by a after the clearing.
C15_RoundTripRestoresAny ==
    RoundTrip =>
        /\ reservations = res_op.prev.before
        /\ HeldBy(reservations, res_op.robot) = {}

\* the table T holds no booking of robot a and no booking on a (tick, cell)
\* pair that reserve_path(a, p, s) books
FreshFor(T, a, p, s) ==
    /\ HeldBy(T, a) = {}
    /\ \A b \in T : <<b[1], b[2]>> \notin BookedPairs(p, s)

\* C15 amended: for every table T in which robot a holds no booking and in
\* which no (cell, tick) pair booked by the call is booked by another robot,
\* reserve_path(a, p, s) followed by clear_robot(a) leaves the bookings
\* equal to T; and for every table T nothing is reported reserved by a
\* after the clearing.
C15_RoundTripRestoresFresh ==
    RoundTrip =>
        /\ HeldBy(reservations, res_op.robot) = {}
        /\ (FreshFor(res_op.prev.before, res_op.robot, res_op.prev.path,
                     res_op.prev.start)
              => reservations = res_op.prev.before)

\* C15 witness: the round trip was made with a non-empty path on a table
\* that held another robot's bookings, none of them on a pair of the path
C15_Witness ==
    /\ RoundTrip
    /\ res_op.prev.path # <<>>
    /\ res_op.prev.before # {}
    /\ FreshFor(res_op.prev.before, res_op.robot, res_op.prev.path,
                res_op.prev.start)

C17_ReservePathBooksExactly ==
    (res_op.name = "reserve_path" /\ res_op.path # <<>>) =>
        /\ HeldBy(reservations, res_op.robot) = BookedPairs(res_op.path, res_op.start)
        /\ ListedBy(robot_reservations, res_op.robot)
              = BookedPairs(res_op.path, res_op.start)
        /\ Len(robot_reservations[res_op.robot]) = Len(res_op.path) + TIME_HORIZON

\* C17 witness: reserve_path booked a path of two cells for a robot that
\* held bookings off that path before
C17_Witness ==
    /\ res_op.name = "reserve_path"
    /\ Len(res_op.path) = MaxPathLen
    /\ res_op.path[1] # res_op.path[2]
    /\ \E pr \in HeldBy(res_before, res_op.robot) :
          pr \notin BookedPairs(res_op.path, res_op.start)

CellAt(start, p, i) == IF i = 0 THEN start ELSE p[i]

\* C19: find_path(start, goal, start_time, robot) returns [] when
\* start = goal, and every non-empty path it returns ends at goal, has each
\* cell equal (WAIT) or 4-adjacent to its predecessor, the first one to
\* start, and can be followed one cell per tick from start_time without
\* entering a (cell, tick) booked by another robot and without swapping
\* cells with another robot's booked move, so that the robot reaches goal
\* in len(path) ticks.
C19_ReturnedPathIsSafe ==
    res_op.name = "find_path" =>
        LET a == res_op.robot
            goal == res_op.path[1]
            start == robots[a].pos
            s == res_op.start
            p == found_path
        IN  /\ start = goal => p = <<>>
            /\ p # <<>> =>
                /\ p[Len(p)] = goal
                /\ \A i \in 1..Len(p) :
                      /\ manhattan(CellAt(start, p, i - 1), p[i]) <= 1
                      /\ ~is_reserved(CurTable, p[i], s + i, a)
                      /\ ~will_swap(CurTable, CellAt(start, p, i - 1), p[i],
                                    s + i - 1, a)

C20_TickLoopReachesEmergency ==
    \E a \in RobotIds :
        \/ robots[a].decision_mode = "FORCED"
        \/ (pc \in {"deadlock", "decision"}
            /\ robots[a].wait_count > DECISION_WAIT_THRESHOLD)

\* every robot is IDLE on its home cell without a package and no package
\* is WAITING
AllIdleAtHome(rb, pk) ==
    /\ \A o \in DOMAIN rb :
          rb[o].state = "IDLE" /\ rb[o].pos = rb[o].home /\ rb[o].package = NoPkg
    /\ \A p \in DOMAIN pk : pk[p].status # "WAITING"

\* C21: if every robot is IDLE on its home cell with no package and no
\* package is WAITING, one tick leaves every mutable robot and package
\* field unchanged, except position_history.  Stated for the first tick,
\* which starts from the constructed robots: up to the end of that tick
\* every robot differs from its constructed record in position_history at
\* most, and no package changes.
C21_IdleTickIsNoOp ==
    (/\ step = 1
     /\ AllIdleAtHome([o \in RobotIds |-> InitRobot(robots[o].home)], packages)
     /\ \A o \in RobotIds : tick_start_pos[o] = robots[o].home)
    => /\ \A o \in RobotIds :
            [robots[o] EXCEPT !.position_history = <<>>]
                = InitRobot(robots[o].home)
       /\ \A p \in PackageIds : packages[p].status = tick_start_status[p]

\* a cycle of next-cell dependencies that has lasted: two robots block
\* each other head-on and each has been held for YIELD_THRESHOLD ticks
LastingCycle ==
    \E a, b \in RobotIds :
        /\ a # b
        /\ HeadOn(robots, a, b)
        /\ robots[a].wait_count >= YIELD_THRESHOLD
        /\ robots[b].wait_count >= YIELD_THRESHOLD

\* C22: whenever robots are blocked in a cycle of next-cell dependencies
\* and the cycle persists, the detector reports the group within
\* DECISION_WAIT_THRESHOLD ticks, the least important member gets an
\* emergency move that breaks the cycle, and the simulation goes on to
\* completion: the run is never given up with a lasting cycle still in
\* place and no member of it forced out.
C22_CycleIsBrokenAndRunCompletes ==
    (pc = "done" /\ LastingCycle)
        => \/ outcome = "win"
           \/ \E o \in RobotIds : robots[o].decision_mode = "FORCED"

\* the robot can never leave its cell: every neighbour cell on the floor
\* is a wall
WalledIn(o) ==
    \A i \in 1..Len(Dirs4) :
        LET n == Shift(robots[o].pos, Dirs4[i])
        IN  in_bounds(n[1], n[2]) => n \in obstacles

\* a package is still waiting in the hands of a walled-in robot
HeldByWalledIn(p) ==
    /\ packages[p].status = "WAITING"
    /\ packages[p].assigned_to # NoRobot
    /\ WalledIn(packages[p].assigned_to)

\* C23: a WAITING package assigned to a robot that is walled in, while
\* another robot can reach the pickup, is handed over once the first
\* robot's wait_count has passed REASSIGN_THRESHOLD, and is delivered in
\* the end: the run never stops with a package still waiting on a
\* walled-in robot.
C23_StuckPackageIsReassigned ==
    pc = "done" => \A p \in PackageIds : ~HeldByWalledIn(p)

\* a path that only tells the robot to stay where it is for one tick
IsWaitMarker(r) == r.path = <<r.pos>>

\* the shape of a stored path: cells of the floor off the walls, each one
\* a 4-neighbour of the cell before it, the first one not the robot's own
\* cell
PathWellFormed(r) ==
    /\ \A i \in 1..Len(r.path) : r.path[i] \in Cells \ obstacles
    /\ \A i \in 2..Len(r.path) : manhattan(r.path[i - 1], r.path[i]) = 1
    /\ (r.path # <<>> /\ ~IsWaitMarker(r)) => r.path[1] # r.pos

\* C24: at the end of every tick, for every robot, every cell of path is
\* in bounds and not an obstacle, each path cell is 4-adjacent to its
\* predecessor in the path, and path[0] differs from the robot's pos
\* unless the path is a WAIT marker.
C24_PathsWellFormed ==
    pc \in {"win_check", "done"} =>
        \A o \in RobotIds : PathWellFormed(robots[o])

\* C25: every committed move changes a robot's position by exactly one
\* orthogonal unit step; in no tick does a robot move diagonally or by
\* more than one cell, whatever produced its path.
C25_MovesAreUnitSteps ==
    [][\A o \in RobotIds :
          robots'[o].pos # robots[o].pos
              => manhattan(robots[o].pos, robots'[o].pos) = 1]_vars

\* the last direct call was decide_who_yields
YieldDecided == res_op.name = "decide_who_yields"

\* the argument of the last decide_who_yields call that was not returned
NotYielder == IF res_op.result = res_op.args[1] THEN res_op.args[2]
              ELSE res_op.args[1]

ImportanceOf(o) == get_robot_importance(robots[o])

\* the remaining path as decide_who_yields measures it
CountedPathLen(o) == IF robots[o].path # <<>> THEN Len(robots[o].path) ELSE 999

\* the call returned one of its arguments, and the same one as the call
\* with the arguments exchanged
OneYielderEitherOrder ==
    /\ res_op.result \in {res_op.args[1], res_op.args[2]}
    /\ res_op.result = decide_who_yields(CurWorld, res_op.args[2], res_op.args[1])

\* C26 (as claimed): decide_who_yields returns exactly one of its two
\* robots, whatever the argument order; whenever the importance scores
\* differ, by any amount, the robot of lower importance yields; only on
\* equal importance the robot with the longer remaining path; only on equal
\* path length the robot with the lower id.
C26_LowerImportanceYields ==
    YieldDecided =>
        LET y == res_op.result
            n == NotYielder
        IN  /\ OneYielderEitherOrder
            /\ IF ImportanceOf(y) # ImportanceOf(n)
               THEN ImportanceOf(y) < ImportanceOf(n)
               ELSE IF Len(robots[y].path) # Len(robots[n].path)
               THEN Len(robots[y].path) > Len(robots[n].path)
               ELSE y < n

\* C26 (amended): decide_who_yields returns exactly one of its two robots,
\* whatever the argument order; when the importance scores differ by more
\* than 100 the robot of lower importance yields; otherwise the robot with
\* the longer remaining path, an empty path counting as 999 cells; on equal
\* path length the robot with the lower id.
C26_ClearlyLowerImportanceYields ==
    YieldDecided =>
        LET y == res_op.result
            n == NotYielder
        IN  /\ OneYielderEitherOrder
            /\ IF Abs(ImportanceOf(y) - ImportanceOf(n)) > 100
               THEN ImportanceOf(y) < ImportanceOf(n)
               ELSE IF CountedPathLen(y) # CountedPathLen(n)
               THEN CountedPathLen(y) > CountedPathLen(n)
               ELSE y < n

\* C26 witness: a call on two robots whose importance differs by 100 or
\* less returned the more important one, the one with the longer path
C26_Witness ==
    /\ YieldDecided
    /\ ImportanceOf(res_op.result) > ImportanceOf(NotYielder)
    /\ Len(robots[res_op.result].path) > Len(robots[NotYielder].path)

\* the last direct call was get_robot_importance; Scored is its argument
ImportanceTaken == res_op.name = "get_robot_importance"

Scored == robots[res_op.args[1]]

StateBase(st) == CASE st = "TO_DROPOFF" -> 1000
                   [] st = "TO_PICKUP" -> 500
                   [] st = "HOME" -> 100
                   [] st = "EVACUATING" -> 50
                   [] OTHER -> 0

\* C27 (as claimed): get_robot_importance equals stateBase, plus
\* 500 - len(path) for a TO_DROPOFF robot, plus 20 * momentum plus
\* 10 * wait_count, for every robot with a path of at most 500 cells, a
\* TO_DROPOFF robot with an empty path included.
C27_ImportanceFormula ==
    (ImportanceTaken /\ Len(Scored.path) <= 500) =>
        res_op.result = StateBase(Scored.state)
                          + (IF Scored.state = "TO_DROPOFF"
                             THEN 500 - Len(Scored.path) ELSE 0)
                          + 20 * Scored.momentum + 10 * Scored.wait_count

\* C27 (amended): get_robot_importance equals stateBase, plus
\* 500 - len(path) for a TO_DROPOFF robot that holds a package and has a
\* path, plus 20 * momentum plus 10 * wait_count, for every robot with a
\* path of at most 500 cells; a TO_DROPOFF robot with an empty path gets
\* no path term.
C27_ImportanceFormulaWithPath ==
    (ImportanceTaken /\ Len(Scored.path) <= 500) =>
        res_op.result = StateBase(Scored.state)
                          + (IF /\ Scored.state = "TO_DROPOFF"
                                /\ Scored.package # NoPkg
                                /\ Scored.path # <<>>
                             THEN 500 - Len(Scored.path) ELSE 0)
                          + 20 * Scored.momentum + 10 * Scored.wait_count

\* C27 witness: the importance of a delivering robot without a path, with
\* momentum, was taken
C27_Witness ==
    /\ ImportanceTaken
    /\ Scored.state = "TO_DROPOFF"
    /\ Scored.path = <<>>
    /\ Scored.momentum > 0
    /\ res_op.result = 1000 + 20 * Scored.momentum + 10 * Scored.wait_count

\* the last direct call was resolve_deadlock_group; GroupMembers are the
\* robots it was given
GroupResolved == res_op.name = "resolve_deadlock_group"

GroupMembers == {res_op.args[i] : i \in DOMAIN res_op.args}

\* the cells the call could send robot o to: free 4-neighbours of its cell
\* that no other robot stands on
FreeFor(o) ==
    {c \in FreeNeighbours(res_op.before[o].pos) :
        \A x \in RobotIds : x # o => res_op.before[x].pos # c}

\* robot o got the emergency move
ForcedOut(o) ==
    /\ Len(robots[o].path) = 1
    /\ robots[o].path[1] \in FreeFor(o)
    /\ (FreeFor(o) \ res_op.before[o].failed_paths # {}
          => robots[o].path[1] \notin res_op.before[o].failed_paths)
    /\ robots[o].decision_mode = "FORCED"
    /\ robots[o].wait_count = 0

\* robot o kept its path, decision_mode and wait_count
KeptCourse(o) ==
    /\ robots[o].path = res_op.before[o].path
    /\ robots[o].decision_mode = res_op.before[o].decision_mode
    /\ robots[o].wait_count = res_op.before[o].wait_count

\* C28: resolve_deadlock_group on a group of two or more modifies at most
\* one robot, a member of minimum importance: its path becomes a single
\* free 4-neighbour cell that no other robot stands on (outside its
\* failed_paths when there is such a cell), its decision_mode FORCED and
\* its wait_count 0; every other robot and every package is unchanged; a
\* chosen member without a free neighbour keeps its path, decision_mode
\* and wait_count.
C28_ResolveTouchesOnlyLeastImportant ==
    GroupResolved =>
        /\ packages = res_op.packages_before
        /\ \E o \in GroupMembers :
              /\ \A x \in GroupMembers :
                    get_robot_importance(res_op.before[o])
                        <= get_robot_importance(res_op.before[x])
              /\ \A x \in RobotIds \ {o} : robots[x] = res_op.before[x]
              /\ IF FreeFor(o) # {} THEN ForcedOut(o) ELSE KeptCourse(o)

\* C28 witness: the call moved the less important of two robots of
\* different importance to a neighbour outside its failed_paths
C28_Witness ==
    /\ GroupResolved
    /\ \E o \in GroupMembers :
          /\ \A x \in GroupMembers \ {o} :
                get_robot_importance(res_op.before[o])
                    < get_robot_importance(res_op.before[x])
          /\ res_op.before[o].failed_paths # {}
          /\ res_op.before[o].decision_mode # "FORCED"
          /\ ForcedOut(o)
          /\ robots[o].path # res_op.before[o].path

\* C28 witness, second case: the chosen robot had no free neighbour
C28_WitnessBoxedIn ==
    /\ GroupResolved
    /\ \E o \in GroupMembers :
          /\ \A x \in GroupMembers \ {o} :
                get_robot_importance(res_op.before[o])
                    < get_robot_importance(res_op.before[x])
          /\ FreeFor(o) = {}
          /\ res_op.before[o].path # <<>>

\* the last direct call was make_decisive_action on a robot whose
\* wait_count was in the YIELD band; Decider is that robot
DecidedInYieldBand ==
    /\ res_op.name = "make_decisive_action"
    /\ InYieldBand(res_op.before[res_op.args[1]])

Decider == res_op.args[1]

\* the robot standing on the Decider's next cell before the call (0: none)
BlockerBefore ==
    LET r == res_op.before[Decider]
    IN  IF r.path # <<>> /\ \E o \in RobotIds : o # Decider /\ res_op.before[o].pos = r.path[1]
        THEN CHOOSE o \in RobotIds :
                /\ o # Decider /\ res_op.before[o].pos = r.path[1]
                /\ \A x \in RobotIds :
                      (x # Decider /\ res_op.before[x].pos = r.path[1]) => o <= x
        ELSE NoRobot

\* the cells the Decider could step aside to: safe 8-neighbours that no
\* other robot stands on, off the blocker's cell and its next five cells
YieldSpots ==
    LET r == res_op.before[Decider]
        b == res_op.before[BlockerBefore]
        taken == {b.path[k] : k \in 1..Min2(5, Len(b.path))} \cup {b.pos}
    IN  {c \in {Shift(r.pos, Dirs8[i]) : i \in 1..8} :
            /\ is_safe_cell(c)
            /\ \A x \in RobotIds : x # Decider => res_op.before[x].pos # c
            /\ c \notin taken}

\* the call had a blocker on path[0], the Decider was the one to yield,
\* and there was a cell to yield to
MustYield ==
    /\ BlockerBefore # NoRobot
    /\ decide_who_yields([CurWorld EXCEPT !.rb = res_op.before],
                         Decider, BlockerBefore) = Decider
    /\ YieldSpots # {}

\* C29 (as claimed): for a robot with YIELD_THRESHOLD <= wait_count <
\* DECISION_WAIT_THRESHOLD, make_decisive_action returns YIELD when a
\* blocker stands on path[0], the robot is the designated yielder and a
\* yield position exists, and REPATH, with failed_paths cleared, in every
\* other case.
C29_YieldOrRepath ==
    DecidedInYieldBand =>
        IF MustYield
        THEN res_op.result.type = "YIELD" /\ res_op.result.data \in YieldSpots
        ELSE res_op.result.type = "REPATH" /\ robots[Decider].failed_paths = {}

\* C29 (amended): for a robot with YIELD_THRESHOLD <= wait_count <
\* DECISION_WAIT_THRESHOLD, make_decisive_action returns YIELD when a
\* blocker stands on path[0], the robot is the designated yielder and a
\* yield position exists; in every other case it returns REPATH, with
\* failed_paths cleared, when the robot has no path, and WAIT when it has
\* one.
C29_YieldRepathOrWait ==
    DecidedInYieldBand =>
        IF MustYield
        THEN res_op.result.type = "YIELD" /\ res_op.result.data \in YieldSpots
        ELSE IF res_op.before[Decider].path = <<>>
        THEN res_op.result.type = "REPATH" /\ robots[Decider].failed_paths = {}
        ELSE res_op.result.type = "WAIT"

\* C29 witness: a robot in the band, blocked by a robot that is the one to
\* yield, was told to WAIT; its path is kept
C29_Witness ==
    /\ DecidedInYieldBand
    /\ BlockerBefore # NoRobot
    /\ ~MustYield
    /\ res_op.result.type = "WAIT"
    /\ robots[Decider].path = res_op.before[Decider].path

\* C29 witness, the YIELD case: a blocked robot was told to yield
C29_WitnessYield ==
    /\ DecidedInYieldBand
    /\ MustYield
    /\ res_op.result.type = "YIELD"

\* the tick at which robot o's evacuation timer was started, 0 when it is
\* not running
EvacTimer(rb, o) == rb[o].evac_start_step

Evacuating(rb, o) == rb[o].state = "EVACUATING"

\* robot o comes to the evacuation check after more than EvacLimit ticks of
\* one evacuation, and the check is not pre-empted by the oscillation reset
EvacLimit == 15

TimedOut(o) ==
    /\ pc = "evacuation"
    /\ Evacuating(robots, o)
    /\ EvacTimer(robots, o) # 0
    /\ step - EvacTimer(robots, o) > EvacLimit

\* C30: an agent that has been EVACUATING without a break for more than 15
\* ticks, counted from the tick in which it entered the state, is reset to
\* IDLE by the timeout check of the next tick, and the timer is not
\* restarted while it stays EVACUATING.  As a property of every step of the
\* loop: (a) an agent that enters EVACUATING in a tick has its timer at that
\* tick or earlier, or at 0, and a timer at 0 is started by nothing but the
\* check, at the tick of the check; (b) a running timer keeps its value as
\* long as the agent stays EVACUATING; (c) the check resets to IDLE, with the
\* timer stopped, every agent whose timer is more than 15 ticks old; (d) an
\* agent that leaves the check EVACUATING has a running timer at most 15
\* ticks old.  An agent that entered in tick t thus has a timer of at most
\* t + 1 at every later check, and does not leave the check of tick t + 17
\* EVACUATING.
C30_EvacuationTimesOut ==
    [][\A o \in RobotIds :
        /\ (~Evacuating(robots, o) /\ Evacuating(robots', o))
                => EvacTimer(robots', o) <= step'
        /\ (Evacuating(robots, o) /\ Evacuating(robots', o))
                => IF EvacTimer(robots, o) # 0
                   THEN EvacTimer(robots', o) = EvacTimer(robots, o)
                   ELSE \/ EvacTimer(robots', o) = 0 /\ pc # "evacuation"
                        \/ EvacTimer(robots', o) = step /\ pc = "evacuation"
        /\ TimedOut(o)
                => robots'[o].state = "IDLE" /\ EvacTimer(robots', o) = 0
        /\ (pc = "evacuation" /\ Evacuating(robots', o))
                => /\ EvacTimer(robots', o) # 0
                   /\ step - EvacTimer(robots', o) <= EvacLimit
      ]_vars

\* an agent comes to the check with a timer 16 ticks old, not at its
\* evacuation target and not standing still for five ticks
C30_Witness ==
    \E o \in RobotIds :
        /\ TimedOut(o)
        /\ robots[o].pos # robots[o].evac_target
        /\ ~oscillating(history_after(robots[o]))

\* the tick after: the check has reset the agent short of its target
C30_WitnessReset ==
    \E o \in RobotIds :
        /\ pc = "decision"
        /\ step > EvacLimit + 1
        /\ robots[o].state = "IDLE"
        /\ robots[o].pos # robots[o].home
        /\ robots[o].pos = tick_start_pos[o]
        /\ robots[o].position_history = <<>>

\* robot o comes to the timeout check YIELDING with a yield timer more than
\* YieldLimit ticks old
YieldLimit == 10

Yielding(rb, o) == rb[o].decision_mode = "YIELDING"

YieldTimedOut(o) ==
    /\ pc = "evacuation"
    /\ Yielding(robots, o)
    /\ robots[o].yield_start_step # 0
    /\ step - robots[o].yield_start_step > YieldLimit

\* C31: an agent whose decision_mode has been YIELDING for more than 10
\* ticks in a row is back in decision_mode NORMAL, with yield_to cleared,
\* after the timeout check of the next tick, so that no agent stays YIELDING
\* for good.  As a property of every step of the loop: (a) an agent that
\* turns YIELDING in a tick has its yield timer at that tick or earlier, or
\* at 0, and a timer at 0 is started by nothing but the check, at the tick of
\* the check; (b) a running timer keeps its value as long as the agent stays
\* YIELDING; (c) the check leaves every agent whose timer is more than 10
\* ticks old in mode NORMAL with yield_to cleared and the timer stopped;
\* (d) an agent that leaves the check YIELDING has a running timer at most 10
\* ticks old.  An agent that turned YIELDING in tick t thus has a timer of at
\* most t + 1 at every later check and does not leave the check of tick
\* t + 12 YIELDING.
C31_YieldingTimesOut ==
    [][\A o \in RobotIds :
        /\ (~Yielding(robots, o) /\ Yielding(robots', o))
                => robots'[o].yield_start_step <= step'
        /\ (Yielding(robots, o) /\ Yielding(robots', o))
                => IF robots[o].yield_start_step # 0
                   THEN robots'[o].yield_start_step = robots[o].yield_start_step
                   ELSE \/ robots'[o].yield_start_step = 0 /\ pc # "evacuation"
                        \/ robots'[o].yield_start_step = step /\ pc = "evacuation"
        /\ YieldTimedOut(o)
                => /\ robots'[o].decision_mode = "NORMAL"
                   /\ robots'[o].yield_to = NoRobot
                   /\ robots'[o].yield_start_step = 0
        /\ (pc = "evacuation" /\ Yielding(robots', o))
                => /\ robots'[o].yield_start_step # 0
                   /\ step - robots'[o].yield_start_step <= YieldLimit
      ]_vars

\* an agent comes to the check with a yield timer 11 ticks old, still under
\* way to its yield position and neither standing still for five ticks nor
\* out of evacuation time: the YIELDING timeout is the branch that fires
C31_Witness ==
    \E o \in RobotIds :
        /\ YieldTimedOut(o)
        /\ robots[o].state = "EVACUATING"
        /\ robots[o].pos # robots[o].evac_target
        /\ ~TimedOut(o)
        /\ ~oscillating(history_after(robots[o]))

\* robots a and b have both planned a move into cell c, on which nobody
\* stands, and no third robot ahead of them in the order has planned it too
Contested(a, b, c) ==
    /\ pc = "execute"
    /\ a # b
    /\ planned_moves[a] = c /\ planned_moves[b] = c
    /\ is_safe_cell(c)
    /\ \A o \in RobotIds : robots[o].pos # c
    /\ \A o \in RobotIds \ {a, b} : planned_moves[o] # c

\* a comes before b in main()'s sorted_robots
Ahead(a, b) ==
    \E i, j \in 1..Len(sorted_robots) :
        i < j /\ sorted_robots[i] = a /\ sorted_robots[j] = b

Admitted(o, c) ==
    /\ can_enter_dropoff(CurWorld, robots[o], c)
    /\ can_enter_pickup(CurWorld, robots[o], c)

\* the worlds robot o can find when its turn in the execute phase comes:
\* the robots ahead of it in the order have made their moves, pickups and
\* deliveries
TurnWorlds(o) ==
    LET i == CHOOSE k \in 1..Len(sorted_robots) : sorted_robots[k] = o
    IN  execute_from({CurWorld}, SubSeq(sorted_robots, 1, i - 1), 1)

C32_WitnessRefused ==
    \E a, b \in RobotIds : \E c \in Cells :
        Contested(a, b, c) /\ Ahead(a, b) /\ ~Admitted(a, c) /\ Admitted(b, c)

\* robot o leaves its cell in this step and ends it on cell c
MovesOnto(o, c) == robots[o].pos # c /\ robots'[o].pos = c

\* robot o carries to cell c: it is TO_DROPOFF with a package for c
CarriesTo(o, c) ==
    /\ robots[o].state = "TO_DROPOFF"
    /\ robots[o].package # NoPkg
    /\ packages[robots[o].package].dropoff = c

\* C33: no agent ever moves onto a cell that is the dropoff cell of some
\* PICKED package unless the agent is itself TO_DROPOFF carrying a package
\* whose dropoff is that cell, also when several packages share the dropoff
\* cell: a robot that moves onto the dropoff of a package that was PICKED
\* when the tick's moves began was carrying to that cell
C33_DropoffOnlyForItsCarrier ==
    [][\A o \in RobotIds : \A c \in Cells :
          (/\ MovesOnto(o, c)
           /\ \E p \in PackageIds :
                 packages[p].status = "PICKED" /\ packages[p].dropoff = c)
            => CarriesTo(o, c)
      ]_vars

\* robot o is on its way to fetch a package that waits on cell c
FetchesFrom(o, c) ==
    /\ robots[o].state = "TO_PICKUP"
    /\ robots[o].package # NoPkg
    /\ packages[robots[o].package].pickup = c

\* C34: no agent ever moves onto a cell that is the pickup cell of some
\* WAITING package unless the agent is in state TO_PICKUP and the package it
\* holds has that cell as its pickup
C34_PickupOnlyForItsFetcher ==
    [][\A o \in RobotIds : \A c \in Cells :
          (/\ MovesOnto(o, c)
           /\ \E p \in PackageIds :
                 packages[p].status = "WAITING" /\ packages[p].pickup = c)
            => FetchesFrom(o, c)
      ]_vars

\* the moves of a tick are done and a robot has moved onto the pickup cell
\* of a package that was WAITING when the tick began
C34_Witness ==
    /\ pc = "final_check"
    /\ \E o \in RobotIds : \E p \in PackageIds :
            /\ tick_start_status[p] = "WAITING"
            /\ packages[p].pickup = robots[o].pos
            /\ tick_start_pos[o] # robots[o].pos

\* the moves of a tick are done and a robot that is not fetching from the
\* pickup cell of a WAITING package has just been turned away from it,
\* although nobody stood or stands on the cell
C34_WitnessRefused ==
    /\ pc = "final_check"
    /\ \E o \in RobotIds : \E p \in PackageIds :
            /\ packages[p].status = "WAITING"
            /\ robots[o].pos = tick_start_pos[o]
            /\ robots[o].pos # packages[p].pickup
            /\ packages[p].pickup \in robots[o].failed_paths
            /\ robots[o].wait_count = 1
            /\ ~FetchesFrom(o, packages[p].pickup)
            /\ \A q \in RobotIds :
                    /\ robots[q].pos # packages[p].pickup
                    /\ tick_start_pos[q] # packages[p].pickup

\* the cells on the remaining paths of the TO_DROPOFF robots other than o
CarrierPaths(o) ==
    UNION {PathSet(robots[q].path) :
             q \in {x \in RobotIds \ {o} : robots[x].state = "TO_DROPOFF"}}

\* robot o stands within Manhattan distance 2 of the dropoff of a package
\* that a TO_DROPOFF robot carries
NearActiveDropoff(o) ==
    \E q \in RobotIds :
        /\ robots[q].state = "TO_DROPOFF"
        /\ robots[q].package # NoPkg
        /\ manhattan(robots[o].pos, packages[robots[q].package].dropoff) <= 2

\* the evacuation phase turns robot o EVACUATING in this step
TurnedEvacuating(o) ==
    /\ pc = "evacuation"
    /\ robots[o].state # "EVACUATING"
    /\ robots'[o].state = "EVACUATING"

\* cell c is free: inside the floor, not a wall, and no other robot on it
FreeCellFor(o, c) ==
    is_safe_cell(c) /\ \A q \in RobotIds \ {o} : robots[q].pos # c

Mismatched(w, o) ==
    /\ w.rb[o].state = "IDLE"
    /\ w.rb[o].package # NoPkg
    /\ w.pk[w.rb[o].package].status \in {"PICKED", "WAITING"}

\* the state invariants of a working robot: TO_DROPOFF with a PICKED package
\* assigned to it, or TO_PICKUP with a WAITING package assigned to it
WorkingStateSound(w, o) ==
    /\ w.rb[o].package # NoPkg
    /\ w.pk[w.rb[o].package].assigned_to = o
    /\ \/ w.rb[o].state = "TO_DROPOFF" /\ w.pk[w.rb[o].package].status = "PICKED"
       \/ w.rb[o].state = "TO_PICKUP" /\ w.pk[w.rb[o].package].status = "WAITING"

\* C36: fix_robot_states repairs state/package mismatches in place: after
\* it has run on the world a tick starts with, no agent is IDLE while
\* holding a PICKED or WAITING package, every agent it coerced satisfies the
\* state invariants (TO_DROPOFF with a PICKED package assigned to it,
\* TO_PICKUP with a WAITING package whose assigned_to is its id), and agents
\* and packages without a mismatch are unchanged
C36_FixRepairsMismatches ==
    pc = "maintenance" =>
        \A w \in fix_robot_states(CurWorld) :
            /\ \A o \in RobotIds : ~Mismatched(w, o)
            /\ \A o \in RobotIds : Mismatched(CurWorld, o) => WorkingStateSound(w, o)
            /\ \A o \in RobotIds : ~Mismatched(CurWorld, o) => w.rb[o] = robots[o]
            /\ w.pk = packages

\* C37: in every reachable state no package id is held, as the package
\* field of a robot, by two different agents at the same time
C37_NoPackageHeldTwice ==
    \A a, b \in RobotIds :
        (a # b /\ robots[a].package # NoPkg) => robots[a].package # robots[b].package

\* the members of a group
GroupSet(g) == {g[k] : k \in 1..Len(g)}

BeforeDecision == pc \in {"maintenance", "deadlock", "evacuation", "decision", "done"}

\* C39: with the default thresholds, at every tick boundary each agent's
\* wait_count is at most DECISION_WAIT_THRESHOLD, so the group detector
\* never sees a wait_count above it and make_decisive_action and the
\* reassignment never see one at FORCE_MOVE_THRESHOLD or beyond; the
\* decisive-action phase resets every agent with wait_count at or above
\* DECISION_WAIT_THRESHOLD to 0, only the planning and the execute phase
\* add to a wait_count, each at most 1, and an agent that enters the
\* planning phase with a path gains nothing there, so at most 1 in the tick
C39_WaitCountStopsAtDecisionThreshold ==
    /\ [](BeforeDecision =>
            \A o \in RobotIds : robots[o].wait_count <= DECISION_WAIT_THRESHOLD)
    /\ [][\A o \in RobotIds :
            /\ (pc = "decision" /\ robots[o].wait_count >= DECISION_WAIT_THRESHOLD)
                  => robots'[o].wait_count = 0
            /\ pc \notin {"planning", "execute"}
                  => robots'[o].wait_count <= robots[o].wait_count
            /\ (pc = "planning" /\ robots[o].path # <<>>)
                  => robots'[o].wait_count <= robots[o].wait_count
            /\ pc \in {"planning", "execute"}
                  => robots'[o].wait_count <= robots[o].wait_count + 1
         ]_vars

\* a robot reaches the decisive-action phase with wait_count at
\* DECISION_WAIT_THRESHOLD
C39_Witness ==
    /\ pc = "decision"
    /\ \E o \in RobotIds : robots[o].wait_count = DECISION_WAIT_THRESHOLD

\* the number of checks robot o has had since it last moved or was reset
Checks(o) == Len(robots[o].position_history)

\* C40: position_history of an agent only ever contains copies of its
\* current cell (it is emptied on every successful move and on every forced
\* reset), so detect_oscillation returns true exactly when the agent has
\* been checked 5 or more consecutive ticks without a successful move or
\* reset in between, and every agent that stands still for 5 ticks,
\* whatever its state, is force-reset to IDLE.  The history is touched by
\* the check of the evacuation phase and by the moves of the execute phase
\* only; the check answers true exactly at the fifth entry, and the robot
\* then leaves the phase IDLE with an empty history.
C40_StandingStillIsOscillating ==
    /\ [](\A o \in RobotIds : \A k \in 1..Checks(o) :
                robots[o].position_history[k] = robots[o].pos)
    /\ [][\A o \in RobotIds :
            /\ pc = "evacuation" =>
                  /\ oscillating(history_after(robots[o])) <=> Checks(o) >= 4
                  /\ Checks(o) >= 4 =>
                        /\ robots'[o].state = "IDLE"
                        /\ robots'[o].position_history = <<>>
                        /\ robots'[o].path = <<>>
                  /\ Checks(o) < 4 =>
                        robots'[o].position_history
                            \in {<<>>, Append(robots[o].position_history, robots[o].pos)}
            /\ pc = "execute" =>
                  robots'[o].position_history =
                      IF robots'[o].pos # robots[o].pos THEN <<>>
                      ELSE robots[o].position_history
            /\ pc \notin {"evacuation", "execute"} =>
                  robots'[o].position_history = robots[o].position_history
         ]_vars

\* a robot that is delivering comes to its fifth check in a row on the same
\* cell
C40_Witness ==
    /\ pc = "evacuation"
    /\ \E o \in RobotIds :
            /\ Checks(o) = 4
            /\ robots[o].state = "TO_DROPOFF"
            /\ oscillating(history_after(robots[o]))

\* a robot has just been reset by the check while it was carrying: it is
\* IDLE with a PICKED package, on the cell the tick found it on
C40_WitnessReset ==
    /\ pc = "decision"
    /\ \E o \in RobotIds :
            /\ robots[o].state = "IDLE"
            /\ robots[o].package # NoPkg
            /\ packages[robots[o].package].status = "PICKED"
            /\ robots[o].position_history = <<>>
            /\ robots[o].pos = tick_start_pos[o]

====
